---- MODULE Spec2Model ----
(***************************************************************************)
(* A model of the DOM composition layer of xf-hq/ui:                       *)
(*   - DOMLocationPointer (insertion strategies, append / appendEach)      *)
(*   - DOMNodeRange and its built-in drivers (static node, static node     *)
(*     array, template-rendered, ConcatAll)                                *)
(*   - the dynamic list reconciler (DynamicDOMController / Segment)        *)
(*   - the binding engines (Attributes.set, Properties.set, the generic    *)
(*     ElementAssignableAspects.set, and their helpers)                    *)
(* The children of one parent element are a sequence of node identifiers.  *)
(***************************************************************************)
EXTENDS Integers, Sequences, FiniteSets, TLC

(***************************************************************************)
(* Bounds of the model.                                                    *)
(***************************************************************************)
\* number of single-node ranges an array source may hand to the controller
NSolid == 5
\* number of empty ranges an array source may hand to the controller
NEmpty == 1
\* most values carried by one push / unshift / splice event
MaxIns == 3
\* longest array the array source holds
MaxLen == 4
\* most events the array source emits
MaxEvents == 3

\* null and undefined
NULL == 0
UNDEFINED == -1

(***************************************************************************)
(* The state.  Each specification below drives one part of the layer and   *)
(* leaves the variables of the other parts as they are.                    *)
(***************************************************************************)
VARIABLES
  dom,        \* children of the parent element
  \* dynamic list reconciler
  segments,   \* DynamicDOMController.#segments
  prevOf,     \* DynamicDOMSegment.__previous, per segment
  nextOf,     \* DynamicDOMSegment.__next, per segment
  locationKind, \* how DynamicDOMController.location was built
  lastKind,   \* the kind of the event last handed to DynamicDOMController.signal
  threw,      \* whether handling that event ended in a DOM exception
  delivered,  \* how many events the array source has emitted
  \* one DOMNodeRange and its caller
  nodeRange,  \* the range (its driver data and its caches)
  attachedAt, \* how the location last handed to range.attachTo was built
  called,     \* the member of the range last used
  before,     \* the member of the range used before that one
  returned,   \* what the getter last read returned
  yielded,    \* the nodes the last iteration of the range yielded
  \* one DOMLocationPointer and its caller
  pointer,    \* the pointer (its strategy and what its getters return)
  appended,   \* the nodes last handed to pointer.append / pointer.appendEach
  props,      \* what the pointer was built from
  anchor,     \* what the caller's next-sibling function returns now
  anchoredAt, \* what that function returned at the last append
  \* one scope and the bindings of its element's aspects
  binding,    \* the binding state of the scope
  bindings,   \* how many values have been bound to names
  \* the connectedness observer and its callers
  sources,    \* DOMConnectedness sources: the controller kept for each node
  controllers, \* the Subscribable.Controller objects made so far
  observers,  \* per node, how many ConnectionObserver objects observe it
  stopped,    \* per node, how often an observer of it was disconnected
  subscribed, \* per call of observe, the node and the abort signal it gave
  abortedSignals, \* the abort signals that have fired
  received,   \* per call of observe, how many notifications its subscriber got
  records,    \* how many times the observers' callback has run
  lastTargets, \* the targets of the entries the callback last got
  lastNotified, \* the subscribers notified in that run
  \* one DOMNodeRange of typed nodes and the caller that queries it
  queryRange, \* the range (its driver data and its caches)
  version,    \* which of the two DOMNodeRange classes of the repository it is
  hasId,      \* the elements that carry the id attribute
  idcache,    \* HTMLTemplate's cache: the element extracted from the range by id
  queryCalled, \* the query last made
  queryResult, \* what it returned or threw
  \* one caller of qualifyAttributeName
  attrName,   \* the attribute name handed to qualifyAttributeName
  qname,      \* the pair it returned
  \* one WebSocketClient, its sockets and its caller
  clientVersion, \* which of the WebSocketClient classes of the repository it is
  sock,       \* per WebSocket the client made, its state
  created,    \* how many WebSockets the client has made
  ws,         \* WebSocketClient.#ws: the socket of the last handshake, 0 for none
  buffer,     \* WebSocketClient.#buffer
  reconnectScheduled, \* WebSocketClient.#reconnectScheduled
  timers,     \* how many reconnect timers are pending
  sends,      \* how many messages the caller has passed to send
  queued,     \* the messages send has buffered since the last handshake
  flushed,    \* the messages the last handshake's flush transmitted
  wire,       \* the messages transmitted, each with its socket
  dropped,    \* the messages handed to a socket that was closed
  \* one ServerBridge, its requests and the server's answers
  bridgeVersion, \* which of the ServerBridge classes of the repository it is
  kindOf,     \* per ref, the kind of the request made with it
  pendingRequests, \* ServerBridge.#pendingRequests, its keys
  listening,  \* the refs whose request has its listener on its abort signal
  aborted,    \* the refs whose request's abort signal has fired
  activeChannels, \* ServerBridge.#activeChannels, its keys
  chan,       \* per ref, the PersistentChannel handed to the open callback
  owed,       \* the refs the server has yet to answer
  outbox,     \* the messages the bridge has sent
  invoked,    \* per ref, how often the request's callback was invoked
  routed,     \* the refs whose router was handed an update
  \* one on-demand rule set, the stylesheets of its contexts and the cleanup
  refs,       \* OnDemandStaticRuleSet.#refs: per stylesheet its StyleRule, 0 for none
  rules,      \* per StyleRule made, its ref's contexts and its state
  rulesMade,  \* how many StyleRules were made
  requires,   \* the require calls made: the rule, the context, released or not
  cleanupQueue, \* StyleRule.cleanupQueue
  isCleanupQueued, \* StyleRule.isCleanupQueued
  timeoutPending, \* whether the timer of StyleRule.timeoutHandle is armed
  \* one renderEach call of a DOMContext
  branches,   \* per branch, the nodes of the view its component renders
  asRecord,   \* whether the branches are given as a record
  insertionLocation, \* the kind of the context's insertion location
  eachDom,    \* the children of the location's parent element
  views,      \* the nodes of the branches of the view renderEach returned
  eachCalled  \* whether renderEach was called

listVars == <<segments, prevOf, nextOf, locationKind, lastKind, threw, delivered>>
rangeVars == <<nodeRange, attachedAt, called, before, returned, yielded>>
pointerVars == <<pointer, appended, props, anchor, anchoredAt>>
bindingVars == <<binding, bindings>>
connectVars ==
  <<sources, controllers, observers, stopped, subscribed, abortedSignals, received,
    records, lastTargets, lastNotified>>
queryVars == <<queryRange, version, hasId, idcache, queryCalled, queryResult>>
qualifyVars == <<attrName, qname>>
socketVars ==
  <<clientVersion, sock, created, ws, buffer, reconnectScheduled, timers, sends, queued,
    flushed, wire, dropped>>
\* the variables of the sub-models that follow the first six
bridgeVars ==
  <<bridgeVersion, kindOf, pendingRequests, listening, aborted, activeChannels, chan, owed,
    outbox, invoked, routed>>
sheetVars ==
  <<refs, rules, rulesMade, requires, cleanupQueue, isCleanupQueued, timeoutPending>>
eachVars == <<branches, asRecord, insertionLocation, eachDom, views, eachCalled>>
laterVars == <<qualifyVars, socketVars, bridgeVars, sheetVars, eachVars>>
\* the children of the parent and the variables of the first six sub-models
earlierVars ==
  <<dom, listVars, rangeVars, pointerVars, bindingVars, connectVars, queryVars>>
\* what the actions of one of the later sub-models leave alone
notQualifyVars == <<earlierVars, socketVars, bridgeVars, sheetVars, eachVars>>
notSocketVars == <<earlierVars, qualifyVars, bridgeVars, sheetVars, eachVars>>
notBridgeVars == <<earlierVars, qualifyVars, socketVars, sheetVars, eachVars>>
notSheetVars == <<earlierVars, qualifyVars, socketVars, bridgeVars, eachVars>>
notEachVars == <<earlierVars, qualifyVars, socketVars, bridgeVars, sheetVars>>

(***************************************************************************)
(* The DOM: children of the one parent element, as a sequence of nodes.    *)
(***************************************************************************)
InSeq(x, seq) == \E i \in 1..Len(seq) : seq[i] = x

IndexOf(x, seq) == CHOOSE i \in 1..Len(seq) : seq[i] = x

\* ChildNode.remove(): a no-op on a node that has no parent
DomRemove(ch, n) == SelectSeq(ch, LAMBDA x : x # n)

\* parent.insertBefore(n, ref) for ref null or a child of parent: a node that
\* is already a child is moved; ref = null appends
DomInsertBefore(ch, n, ref) ==
  IF ref = n THEN ch
  ELSE LET c == DomRemove(ch, n)
       IN  IF ref = NULL THEN Append(c, n)
           ELSE LET k == IndexOf(ref, c)
                IN  SubSeq(c, 1, k - 1) \o <<n>> \o SubSeq(c, k, Len(c))

\* parent.insertBefore(n, ref) throws NotFoundError when ref is not a child
DomInsertThrows(ch, ref) == ref # NULL /\ ~InSeq(ref, ch)

\* parent.appendChild(n)
DomAppendChild(ch, n) == Append(DomRemove(ch, n), n)

\* parent.prepend(n)
DomPrepend(ch, n) == <<n>> \o DomRemove(ch, n)

\* node.nextSibling
NextSibling(ch, n) ==
  IF InSeq(n, ch) /\ IndexOf(n, ch) < Len(ch) THEN ch[IndexOf(n, ch) + 1] ELSE NULL

RECURSIVE RemoveNodes(_, _)
\* node.remove() for each of the nodes
RemoveNodes(ch, nodes) ==
  IF nodes = <<>> THEN ch ELSE RemoveNodes(DomRemove(ch, Head(nodes)), Tail(nodes))

(***************************************************************************)
(* DOMLocationPointer.  An anchor given in the props is absent (undefined) *)
(* or a value: a node or null.  A pointer is its strategy and the values   *)
(* its two getters return.                                                 *)
(***************************************************************************)
\* DOMLocationPointer.from(element)
PointerFromElement ==
  [insert |-> "appendAsLastChild", previous |-> NULL, next |-> NULL]

\* a from(props) that prefers the previous-sibling anchor
PointerFromPropsPreferPrevious(previous, next) ==
  [insert |-> IF previous # UNDEFINED THEN "appendAfterPreviousSibling"
              ELSE IF next # UNDEFINED THEN "appendBeforeNextOuterSibling"
              ELSE "appendAsLastChild",
   previous |-> IF previous = UNDEFINED THEN NULL ELSE previous,
   next |-> IF next = UNDEFINED THEN NULL ELSE next]

\* DOMLocationPointer.from(props): fromNodePointerProp gives no getter only for
\* an absent anchor; an anchor that is null gives a getter returning null
PointerFromProps(previous, next) ==
  [insert |-> IF next # UNDEFINED THEN "appendBeforeNextOuterSibling"
              ELSE IF previous # UNDEFINED THEN "appendAfterPreviousSibling"
              ELSE "appendAsLastChild",
   previous |-> IF previous = UNDEFINED THEN NULL ELSE previous,
   next |-> IF next = UNDEFINED THEN NULL ELSE next]

\* a nextOuterSibling that kept the first value its getter returned
NextOuterSiblingCached(loc, isFunction, now) == loc.next

\* get nextOuterSibling: the getter is called at every read; a getter made from
\* a node or from null returns it, a getter that is the caller's function
\* returns what that function returns now
NextOuterSibling(loc, isFunction, now) == IF isFunction THEN now ELSE loc.next

\* the pointer as an append sees it
Resolved(loc, isFunction, now) ==
  [loc EXCEPT !.next = NextOuterSibling(loc, isFunction, now)]

\* appendAfterPreviousSibling
AppendAfterPreviousSibling(ch, loc, n) ==
  IF loc.previous = NULL THEN DomPrepend(ch, n)
  ELSE IF NextSibling(ch, loc.previous) = NULL THEN DomAppendChild(ch, n)
       ELSE DomInsertBefore(ch, n, NextSibling(ch, loc.previous))

\* DOMLocationPointer.append
PointerAppend(ch, loc, n) ==
  CASE loc.insert = "appendAsLastChild" -> DomAppendChild(ch, n)
    [] loc.insert = "appendBeforeNextOuterSibling" -> DomInsertBefore(ch, n, loc.next)
    [] loc.insert = "appendAfterPreviousSibling" -> AppendAfterPreviousSibling(ch, loc, n)

RECURSIVE PointerAppendEach(_, _, _)
\* DOMLocationPointer.appendEach
PointerAppendEach(ch, loc, nodes) ==
  IF nodes = <<>> THEN ch
  ELSE PointerAppendEach(PointerAppend(ch, loc, Head(nodes)), loc, Tail(nodes))

(***************************************************************************)
(* DOMNodeRange and its built-in drivers.  A range is a record:            *)
(*   kind        the driver                                                *)
(*   nodes       data.node / data.nodes (for a template-rendered range the *)
(*               imported nodes, meaningful once imported is TRUE)         *)
(*   template    the child nodes an import of data.templateElement yields  *)
(*   imported    whether data.nodes of a template-rendered range is defined*)
(*   ranges      data.ranges of a ConcatAll range                          *)
(*   isImmutable, firstActiveNode, lastActiveNode   the fields of the same *)
(*               names that the ConcatAll constructor computes             *)
(*   location    data.location                                             *)
(*   cachedFirst, cachedLast   DOMNodeRange.#firstActiveNode and           *)
(*               #lastActiveNode                                           *)
(*   cachedFirstElement, cachedLastElement, cachedFirstHTMLElement         *)
(*               DOMNodeRange.#firstActiveElement, #lastActiveElement and  *)
(*               #firstActiveHTMLElement                                   *)
(*   disposed    DOMNodeRange.#disposed                                    *)
(*   driverDisposals   how often the driver's dispose has run for the range*)
(*   targetDisposals   how often the range's disposalTarget was disposed   *)
(***************************************************************************)
\* data.location = null
NoLocation == [insert |-> "null", previous |-> NULL, next |-> NULL]

NewRange(kind, nodes, template) ==
  [kind |-> kind, nodes |-> nodes, template |-> template, imported |-> FALSE,
   ranges |-> <<>>, isImmutable |-> TRUE,
   firstActiveNode |-> UNDEFINED, lastActiveNode |-> UNDEFINED,
   location |-> NoLocation, cachedFirst |-> UNDEFINED, cachedLast |-> UNDEFINED,
   cachedFirstElement |-> UNDEFINED, cachedLastElement |-> UNDEFINED,
   cachedFirstHTMLElement |-> UNDEFINED,
   disposed |-> FALSE, driverDisposals |-> 0, targetDisposals |-> 0]

Empty == NewRange("Empty", <<>>, <<>>)
FromStaticNode(node) == NewRange("FromStaticNode", <<node>>, <<>>)
FromStaticNodeArray(nodes) == NewRange("FromStaticNodeArray", nodes, <<>>)
RenderedRange(template) == NewRange("RenderedRange", <<>>, template)
\* DOMNodeRange.create(driver, data) with a driver of the caller's own: its
\* isImmutableRange, firstActiveNode and lastActiveNode return what its data holds
Custom(first, last, immutable) ==
  [NewRange("Custom", <<>>, <<>>) EXCEPT !.firstActiveNode = first,
                                         !.lastActiveNode = last,
                                         !.isImmutable = immutable]

\* RenderedRange getNodes
GetNodes(r) ==
  IF r.imported THEN r ELSE [r EXCEPT !.imported = TRUE, !.nodes = r.template]

\* DOMNodeRange.isImmutable
IsImmutable(r) == r.isImmutable

RECURSIVE FirstActiveNode(_), DriverFirstActiveNode(_), FindNextActiveNode(_, _)
\* Driver.firstActiveNode of each driver; a getter that changes the range it
\* reads gives the range back with the node
DriverFirstActiveNode(r) ==
  CASE r.kind = "Empty" -> [range |-> r, node |-> NULL]
    [] r.kind = "FromStaticNode" -> [range |-> r, node |-> r.nodes[1]]
    [] r.kind = "FromStaticNodeArray" ->
         [range |-> r, node |-> IF Len(r.nodes) = 0 THEN NULL ELSE r.nodes[1]]
    [] r.kind = "RenderedRange" ->
         LET g == GetNodes(r)
         IN  [range |-> g, node |-> IF Len(g.nodes) = 0 THEN NULL ELSE g.nodes[1]]
    [] r.kind = "Custom" -> [range |-> r, node |-> r.firstActiveNode]
    [] r.kind = "ConcatAll" ->
         IF r.firstActiveNode # UNDEFINED THEN [range |-> r, node |-> r.firstActiveNode]
         ELSE FindNextActiveNode(r, 0)
\* DOMNodeRange.firstActiveNode
FirstActiveNode(r) ==
  IF r.cachedFirst # UNDEFINED THEN [range |-> r, node |-> r.cachedFirst]
  ELSE LET d == DriverFirstActiveNode(r)
       IN  [range |-> IF IsImmutable(d.range) THEN [d.range EXCEPT !.cachedFirst = d.node]
                      ELSE d.range,
            node |-> d.node]
\* ConcatAll findNextActiveNode (rangesStartIndex is 0-based, as in the code)
FindNextActiveNode(r, rangesStartIndex) ==
  IF rangesStartIndex >= Len(r.ranges) THEN [range |-> r, node |-> NULL]
  ELSE LET f == FirstActiveNode(r.ranges[rangesStartIndex + 1])
           r1 == [r EXCEPT !.ranges[rangesStartIndex + 1] = f.range]
       IN  IF f.node # NULL THEN [range |-> r1, node |-> f.node]
           ELSE FindNextActiveNode(r1, rangesStartIndex + 1)

\* a driver that never has a last active node
DriverLastActiveNodeNone(r) == [range |-> r, node |-> NULL]

RECURSIVE LastActiveNode(_), DriverLastActiveNode(_), FindLastActiveNode(_, _)
\* Driver.lastActiveNode of each driver
DriverLastActiveNode(r) ==
  CASE r.kind = "Empty" -> [range |-> r, node |-> NULL]
    [] r.kind = "FromStaticNode" -> [range |-> r, node |-> r.nodes[1]]
    [] r.kind = "FromStaticNodeArray" ->
         [range |-> r, node |-> IF Len(r.nodes) = 0 THEN NULL ELSE r.nodes[Len(r.nodes)]]
    [] r.kind = "RenderedRange" ->
         LET g == GetNodes(r)
         IN  [range |-> g, node |-> IF Len(g.nodes) = 0 THEN NULL ELSE g.nodes[Len(g.nodes)]]
    [] r.kind = "Custom" -> [range |-> r, node |-> r.lastActiveNode]
    [] r.kind = "ConcatAll" ->
         IF r.lastActiveNode # UNDEFINED THEN [range |-> r, node |-> r.lastActiveNode]
         ELSE FindLastActiveNode(r, Len(r.ranges) - 1)
\* DOMNodeRange.lastActiveNode
LastActiveNode(r) ==
  IF r.cachedLast # UNDEFINED THEN [range |-> r, node |-> r.cachedLast]
  ELSE LET d == DriverLastActiveNode(r)
       IN  [range |-> IF IsImmutable(d.range) THEN [d.range EXCEPT !.cachedLast = d.node]
                      ELSE d.range,
            node |-> d.node]
\* the loop of ConcatAll.Driver.lastActiveNode, from index i (0-based) down
FindLastActiveNode(r, i) ==
  IF i < 0 THEN [range |-> r, node |-> NULL]
  ELSE LET l == LastActiveNode(r.ranges[i + 1])
           r1 == [r EXCEPT !.ranges[i + 1] = l.range]
       IN  IF l.node # NULL THEN [range |-> r1, node |-> l.node]
           ELSE FindLastActiveNode(r1, i - 1)

\* ConcatAll constructor: a variant of ConcatAllFirst below that takes every
\* sub-range's first node, null or not
ConcatAllFirstOverwriting(data, i) ==
  LET f == FirstActiveNode(data.ranges[i])
  IN  [data EXCEPT !.ranges[i] = f.range, !.firstActiveNode = f.node]

\* ConcatAll constructor: what sub-range i (1-based) does to firstActiveNode
ConcatAllFirst(data, i) ==
  IF data.firstActiveNode # UNDEFINED THEN data
  ELSE LET f == FirstActiveNode(data.ranges[i])
       IN  [data EXCEPT !.ranges[i] = f.range,
                        !.firstActiveNode = IF f.node # NULL THEN f.node ELSE @]
\* ConcatAll constructor: what sub-range i (1-based) does to lastActiveNode
ConcatAllLast(data, i) ==
  IF data.lastActiveNode # UNDEFINED THEN data
  ELSE LET l == LastActiveNode(data.ranges[i])
       IN  [data EXCEPT !.ranges[i] = l.range,
                        !.lastActiveNode = IF l.node # NULL THEN l.node ELSE @]

RECURSIVE ConcatAllLoop(_, _)
\* ConcatAll constructor: the loop over the sub-ranges; a constructor that
\* throws makes no range, which kind "Error" stands for
ConcatAllLoop(data, i) ==
  IF i > Len(data.ranges) THEN data
  ELSE IF ~IsImmutable(data.ranges[i])
       THEN [data EXCEPT !.isImmutable = FALSE, !.lastActiveNode = UNDEFINED]
       ELSE LET d == ConcatAllLast(ConcatAllFirst(data, i), i)
            IN  IF (d.firstActiveNode = NULL) # (d.lastActiveNode = NULL)
                THEN [d EXCEPT !.kind = "Error"]
                ELSE ConcatAllLoop(d, i + 1)
\* DOMNodeRange.ConcatAll(ranges)
ConcatAll(ranges) ==
  ConcatAllLoop([NewRange("ConcatAll", <<>>, <<>>) EXCEPT !.ranges = ranges], 1)

RECURSIVE Appends(_)
\* whether attaching the range appends a node through the location it is given
Appends(r) ==
  CASE r.kind = "Empty" -> FALSE
    [] r.kind = "RenderedRange" -> Len(GetNodes(r).nodes) > 0
    [] r.kind = "ConcatAll" -> Len(r.ranges) > 0 /\ Appends(r.ranges[Len(r.ranges)])
    [] OTHER -> Len(r.nodes) > 0

RECURSIVE AttachTo(_, _, _), ConcatAllAttach(_, _, _, _)
\* DOMNodeRange.attachTo: Driver.attachToDOM of each driver
AttachTo(r, ch, location) ==
  CASE r.kind = "Empty" -> [range |-> r, dom |-> ch]
    [] r.kind = "FromStaticNode" ->
         [range |-> [r EXCEPT !.location = location],
          dom |-> PointerAppend(ch, location, r.nodes[1])]
    [] r.kind = "FromStaticNodeArray" ->
         [range |-> [r EXCEPT !.location = location],
          dom |-> PointerAppendEach(ch, location, r.nodes)]
    [] r.kind = "RenderedRange" ->
         LET g == GetNodes([r EXCEPT !.location = location])
         IN  [range |-> g, dom |-> PointerAppendEach(ch, location, g.nodes)]
    [] r.kind = "ConcatAll" ->
         ConcatAllAttach([r EXCEPT !.location = location], ch, location, Len(r.ranges) - 1)
\* the loop of ConcatAll.Driver.attachToDOM, from index i (0-based) down.  The
\* location made for sub-range i - 1 reads findNextActiveNode(data, i) on each
\* append; the sub-ranges it reads are attached by then, so every read gives
\* the same node
ConcatAllAttach(r, ch, location, i) ==
  IF i < 0 THEN [range |-> r, dom |-> ch]
  ELSE LET a == AttachTo(r.ranges[i + 1], ch, location)
           r1 == [r EXCEPT !.ranges[i + 1] = a.range]
       IN  IF i = 0 THEN [range |-> r1, dom |-> a.dom]
           ELSE LET n == FindNextActiveNode(r1, i)
                IN  ConcatAllAttach(IF Appends(r1.ranges[i]) THEN n.range ELSE r1, a.dom,
                                    PointerFromProps(UNDEFINED, n.node), i - 1)

RECURSIVE Remove(_, _), ConcatAllRemove(_, _, _)
\* DOMNodeRange.remove: Driver.removeFromDOM of each driver
Remove(r, ch) ==
  CASE r.kind = "Empty" -> [range |-> r, dom |-> ch]
    [] r.kind = "FromStaticNode" ->
         [range |-> [r EXCEPT !.location = NoLocation], dom |-> DomRemove(ch, r.nodes[1])]
    [] r.kind = "FromStaticNodeArray" ->
         [range |-> [r EXCEPT !.location = NoLocation], dom |-> RemoveNodes(ch, r.nodes)]
    [] r.kind = "RenderedRange" ->
         IF ~r.imported THEN [range |-> r, dom |-> ch]
         ELSE [range |-> r, dom |-> RemoveNodes(ch, r.nodes)]
    [] r.kind = "ConcatAll" -> ConcatAllRemove([r EXCEPT !.location = NoLocation], ch, 1)
\* the loop of ConcatAll.Driver.removeFromDOM
ConcatAllRemove(r, ch, i) ==
  IF i > Len(r.ranges) THEN [range |-> r, dom |-> ch]
  ELSE LET m == Remove(r.ranges[i], ch)
       IN  ConcatAllRemove([r EXCEPT !.ranges[i] = m.range], m.dom, i + 1)

\* DOMNodeRange.attachedLocation / isAttached
AttachedLocation(r) == IF r.kind = "Empty" THEN NoLocation ELSE r.location
IsAttached(r) == AttachedLocation(r) # NoLocation

RECURSIVE Dispose(_), DriverDispose(_)
\* Driver.dispose of each driver
DriverDispose(r) ==
  LET r1 == [r EXCEPT !.driverDisposals = @ + 1]
  IN  CASE r.kind = "Empty" -> r1
        [] r.kind = "RenderedRange" -> [r1 EXCEPT !.imported = FALSE, !.nodes = <<>>]
        [] r.kind = "ConcatAll" ->
             [r1 EXCEPT !.ranges = [i \in 1..Len(r.ranges) |-> Dispose(r.ranges[i])],
                        !.targetDisposals = @ + 1]
        [] OTHER -> [r1 EXCEPT !.targetDisposals = @ + 1]

\* a dispose without the #disposed flag
DisposeUnguarded(r) == DriverDispose(r)

\* DOMNodeRange[Symbol.dispose]
Dispose(r) ==
  IF r.disposed THEN r ELSE DriverDispose([r EXCEPT !.disposed = TRUE])

RECURSIVE IterateFrom(_, _, _, _)
\* the loop of DOMNodeRange[Symbol.iterator], at node, having yielded out
IterateFrom(r, ch, node, out) ==
  IF node = NULL THEN [range |-> r, yielded |-> out]
  ELSE LET l == LastActiveNode(r)
       IN  IF node = l.node THEN [range |-> l.range, yielded |-> Append(out, node)]
           ELSE IterateFrom(l.range, ch, NextSibling(ch, node), Append(out, node))

\* DOMNodeRange[Symbol.iterator], run to its end
Iterate(r, ch) ==
  LET f == FirstActiveNode(r)
  IN  IterateFrom(f.range, ch, f.node, <<>>)

(***************************************************************************)
(* Aspect binding: Attributes (element-attributes.ts) and the generic      *)
(* ElementAssignableAspects engine (dom-events.ts) behind properties,      *)
(* dataset entries, styles and classes.  One scope (DOMContext) holds one  *)
(* element.  A value bound to a name is a literal, a one-shot async or a   *)
(* streaming source; a binding state b is a record:                        *)
(*   engine      which of the two engines the scope's owner uses           *)
(*   aborted     whether context.abort has fired                           *)
(*   value       what the element carries, per name                        *)
(*   writer      the source whose value the element carries, per name      *)
(*   bound       the value last bound to the name by the owner or by the   *)
(*               reactive mapping, per name                                *)
(*   current     what each streaming source last emitted                   *)
(*   pending     the continuations attached to unresolved asyncs, oldest   *)
(*               first                                                     *)
(*   subs        the live subscriptions to streaming sources, oldest first *)
(*   handles     the names that have a cancellation handle in the table of *)
(*               the reactive mapping binding (abortControllers, or the    *)
(*               named entries of State.disposables)                       *)
(*   subscribed  whether the reactive mapping source is subscribed         *)
(*   entries     the current entries of the reactive mapping source        *)
(* A continuation or subscription made under a name's cancellation handle  *)
(* has scope "handle"; one made under the scope itself has scope "context".*)
(***************************************************************************)
Names == {"x", "y"}
Literals == {"5"}
Asyncs == {"A1", "A2"}
\* the async that resolves to a whole mapping
MappingAsync == "AM"
Streams == {"S1", "S2"}
\* what a streaming source may emit
Emissions == {"1", "2"}
BindValues == Literals \cup Asyncs \cup Streams
NONE == "none"

Absent == [type |-> "absent", text |-> ""]
Number(text) == [type |-> "number", text |-> text]
\* String(value)
String(v) == [type |-> "string", text |-> v.text]
IsString(v) == v.type = "string"

\* the one element of the scope is given a value for the name
Assign(b, name, v, by) ==
  [b EXCEPT !.value[name] = v, !.writer[name] = by]
\* Driver.assign of the generic engine's drivers: each stores String(value)
DriverAssign(b, name, v, by) == Assign(b, name, String(v), by)
\* element.removeAttributeNS / driver.unassign
Unassign(b, name) ==
  [b EXCEPT !.value[name] = Absent, !.writer[name] = NONE]

\* setQualifiedAttributeFromLiteralValue
SetQualifiedAttributeFromLiteralValue(b, name, v, by) ==
  Assign(b, name, IF IsString(v) THEN v ELSE String(v), by)

\* setPropertyFromLiteralValue: element[name] = value
SetPropertyFromLiteralValue(b, name, v, by) == Assign(b, name, v, by)

\* the engines written function by function, with a table of cancellation
\* handles and a context whose abort they read: Attributes of
\* element-attributes.ts and Properties of html-template.ts, which differ in
\* the literal write only
HasTable(b) == b.engine \in {"Attributes", "Properties"}
\* the literal write of the engine the binding was made with
SetFromLiteralValue(b, name, v, by) ==
  IF b.engine = "Properties" THEN SetPropertyFromLiteralValue(b, name, v, by)
  ELSE SetQualifiedAttributeFromLiteralValue(b, name, v, by)

\* setQualifiedAttributeFromValueSource / setPropertyFromValueSource:
\* ValueSource.subscribe(signal, ...).echo()
SetQualifiedAttributeFromValueSource(b, name, source, scope) ==
  SetFromLiteralValue(
    [b EXCEPT !.subs = Append(@, [source |-> source, name |-> name, scope |-> scope])],
    name, Number(b.current[source]), source)

\* setQualifiedAttributeFromAsync: async.then(continuation)
SetQualifiedAttributeFromAsync(b, name, async, scope) ==
  [b EXCEPT !.pending = Append(@, [async |-> async, name |-> name, scope |-> scope,
                                   cancelled |-> FALSE])]

\* setAttribute / setQualifiedAttribute; useSubcontext is scope = "handle"
SetAttribute(b, name, value, scope, by) ==
  IF value \in Asyncs THEN SetQualifiedAttributeFromAsync(b, name, value, scope)
  ELSE IF value \in Streams THEN SetQualifiedAttributeFromValueSource(b, name, value, scope)
  ELSE SetFromLiteralValue(b, name, Number(value), by)
\* a setAttribute that returns a controller for every value
ReturnsControllerAlways(value) == TRUE
\* whether setAttribute(context, name, value, true) returns a controller
ReturnsController(value) == value \in Asyncs \cup Streams

\* oldController.abort(): the subscriptions made under the name's handle end
\* and the continuations made under it find their context aborted
AbortHandle(b, name) ==
  [b EXCEPT !.subs = SelectSeq(@, LAMBDA s : ~(s.name = name /\ s.scope = "handle")),
            !.pending = [i \in 1..Len(@) |->
                           IF @[i].name = name /\ @[i].scope = "handle"
                           THEN [@[i] EXCEPT !.cancelled = TRUE] ELSE @[i]]]

\* setOrUpdateExistingAttribute with the abortControllers table
SetOrUpdateExistingAttribute(b, name, value) ==
  LET b1 == IF name \in b.handles THEN AbortHandle(b, name) ELSE b
      b2 == SetAttribute(b1, name, value, "handle", "owner")
  IN  [b2 EXCEPT !.handles = IF ReturnsController(value) THEN @ \cup {name}
                              ELSE @ \ {name}]

\* removeAttribute with the abortControllers table
RemoveAttribute(b, name) ==
  LET b1 == IF name \in b.handles THEN AbortHandle(b, name) ELSE b
  IN  Unassign([b1 EXCEPT !.handles = @ \ {name}], name)

\* the continuation of setQualifiedAttributeFromAsync, run with the value the
\* async resolved to
AttributeContinuation(b, c, value) ==
  IF b.aborted \/ c.cancelled THEN b
  ELSE IF value \in Streams
       THEN SetQualifiedAttributeFromValueSource(b, c.name, value, c.scope)
       ELSE SetAttribute(b, c.name, value, c.scope, c.async)

\* State.dispose(name): DisposableGroup.delete disposes the named entry
StateDispose(b, name) ==
  [b EXCEPT !.subs = SelectSeq(@, LAMBDA s : ~(s.name = name /\ s.scope = "handle")),
            !.handles = @ \ {name}]

\* assignAspectFromValueSource: source.subscribe, state.disposables.set(name,
\* subscription, true) (which disposes the entry the name had), echo
AssignAspectFromValueSource(b, name, source, scope) ==
  LET b1 == IF scope = "handle"
            THEN [StateDispose(b, name) EXCEPT !.handles = @ \cup {name}]
            ELSE b
  IN  DriverAssign([b1 EXCEPT !.subs = Append(@, [source |-> source, name |-> name,
                                                  scope |-> scope])],
                   name, Number(b.current[source]), source)

\* assignAspectFromAsync: source.then(continuation)
AssignAspectFromAsync(b, name, async, scope) ==
  [b EXCEPT !.pending = Append(@, [async |-> async, name |-> name, scope |-> scope,
                                   cancelled |-> FALSE])]

\* assignAspect
AssignAspect(b, name, value, scope, by) ==
  IF value \in Asyncs THEN AssignAspectFromAsync(b, name, value, scope)
  ELSE IF value \in Streams THEN AssignAspectFromValueSource(b, name, value, scope)
  ELSE DriverAssign(b, name, IF IsString(Number(value)) THEN Number(value)
                             ELSE String(Number(value)), by)

\* the continuation of assignAspectFromAsync: no State is ever disposed, so
\* state.isDisposed is false
AspectContinuation(b, c, value) ==
  IF value \in Streams THEN AssignAspectFromValueSource(b, c.name, value, c.scope)
  ELSE AssignAspect(b, c.name, value, c.scope, c.async)

\* the value bound to a name changes
Bind(b, name, value) ==
  [b EXCEPT !.bound[name] = value]

\* one entry of a mapping bound without a table: setOrUpdateExistingAttribute
\* with no abortControllers / assignAspect on the State of the call
SetEntry(b, name, value) ==
  IF HasTable(b) THEN SetAttribute(Bind(b, name, value), name, value, "context", "owner")
  ELSE AssignAspect(Bind(b, name, value), name, value, "context", "owner")

\* one entry of the reactive mapping, from its init snapshot or an add or
\* change event: setOrUpdateExistingAttribute with the table /
\* assignValuesFromMap
SetSourceEntry(b, name, value) ==
  IF HasTable(b) THEN SetOrUpdateExistingAttribute(Bind(b, name, value), name, value)
  ELSE AssignAspect(StateDispose(Bind(b, name, value), name), name, value, "handle", "owner")

\* one name of a delete event: removeAttribute with the table /
\* removeAndDisposeValues
DeleteSourceEntry(b, name) ==
  IF HasTable(b) THEN RemoveAttribute(Bind(b, name, NONE), name)
  ELSE Unassign(StateDispose(Bind(b, name, NONE), name), name)

\* a mapping gives each name a value or none; its entries are visited in the
\* order of the names
NameOrder == <<"x", "y">>
RECURSIVE SetEntries(_, _, _, _)
SetEntries(b, mapping, withTable, i) ==
  IF i > Len(NameOrder) THEN b
  ELSE LET name == NameOrder[i]
       IN  IF mapping[name] = NONE THEN SetEntries(b, mapping, withTable, i + 1)
           ELSE SetEntries(IF withTable THEN SetSourceEntry(b, name, mapping[name])
                           ELSE SetEntry(b, name, mapping[name]),
                           mapping, withTable, i + 1)

\* setAttributesFromMapSource / assignValuesFromMapSource: subscribe and take
\* the init snapshot
SetFromSource(b) ==
  SetEntries([b EXCEPT !.subscribed = TRUE, !.handles = {}], b.entries, TRUE, 1)

\* setAttributesFromImmediate / assignValuesFromNonAsync: values is a plain
\* mapping or the reactive mapping source
SetFromImmediate(b, values) ==
  IF values.reactive THEN SetFromSource(b) ELSE SetEntries(b, values.entries, FALSE, 1)

\* setAttributesFromAsync / assignValuesFromExplicitAsync: async.then(continuation)
SetFromAsync(b) ==
  [b EXCEPT !.pending = Append(@, [async |-> MappingAsync, name |-> NONE,
                                   scope |-> "context", cancelled |-> FALSE])]

\* the continuation of setAttributesFromAsync / assignValuesFromExplicitAsync
MappingContinuation(b, values) ==
  IF HasTable(b) /\ b.aborted THEN b ELSE SetFromImmediate(b, values)

\* the continuation of a one-shot async bound to a name
Continuation(b, c, value) ==
  IF HasTable(b) THEN AttributeContinuation(b, c, value)
  ELSE AspectContinuation(b, c, value)

RECURSIVE RunContinuations(_, _, _)
\* an async resolves: its continuations run, oldest first
RunContinuations(b, cs, value) ==
  IF cs = <<>> THEN b
  ELSE RunContinuations(Continuation(b, Head(cs), value), Tail(cs), value)
ResolveAsync(b, async, value) ==
  RunContinuations([b EXCEPT !.resolved = @ \cup {async},
                             !.pending = SelectSeq(@, LAMBDA c : c.async # async)],
                   SelectSeq(b.pending, LAMBDA c : c.async = async), value)
ResolveMappingAsync(b, values) ==
  LET b1 == [b EXCEPT !.resolved = @ \cup {MappingAsync},
                      !.pending = SelectSeq(@, LAMBDA c : c.async # MappingAsync)]
  IN  IF \E i \in 1..Len(b.pending) : b.pending[i].async = MappingAsync
      THEN MappingContinuation(b1, values) ELSE b1

RECURSIVE Notify(_, _, _, _)
\* a streaming source emits: the callbacks of its subscriptions run, oldest first
Notify(b, ss, source, v) ==
  IF ss = <<>> THEN b
  ELSE Notify(IF Head(ss).source # source THEN b
              ELSE IF HasTable(b)
                   THEN SetFromLiteralValue(b, Head(ss).name, Number(v), source)
                   ELSE DriverAssign(b, Head(ss).name, Number(v), source),
              Tail(ss), source, v)
Emit(b, source, v) == Notify([b EXCEPT !.current[source] = v], b.subs, source, v)

\* context.abort fires: subscriptions made with the context's signal (or the
\* signal of a sub-context of it) end; the generic engine never reads the signal
AbortContext(b) ==
  IF HasTable(b)
  THEN [b EXCEPT !.aborted = TRUE, !.subs = <<>>, !.subscribed = FALSE]
  ELSE [b EXCEPT !.aborted = TRUE]

(***************************************************************************)
(* DOMConnectedness.  A controller is a record: the node it was made for   *)
(* and the calls of observe whose subscribers it holds.  A                 *)
(* Subscribable.Controller calls online when its first subscriber arrives  *)
(* and offline when its last subscriber leaves; disposeOnAbort disposes    *)
(* the subscription when the signal fires.                                 *)
(***************************************************************************)
\* nodes that callers observe
ObservedNodes == {"n1", "n2"}
\* abort signals that callers hand to observe
Signals == {"g1", "g2"}
\* most calls of observe
MaxObserves == 3
\* most runs of the observers' callback
MaxRecords == 2
\* most entries the callback gets in one run
MaxEntries == 2

Calls == 1..MaxObserves

\* a call of observe that has not been made
NoCall == [node |-> NONE, signal |-> NONE]

ConnectState ==
  [sources |-> sources, controllers |-> controllers, observers |-> observers,
   stopped |-> stopped, received |-> received, notified |-> {}]

\* online (): a new ConnectionObserver observes the node
Online(c, node) == [c EXCEPT !.observers[node] = @ + 1]

\* an offline () that leaves the observer observing
OfflineLeavesObserver(c, node) == [c EXCEPT !.stopped[node] = @ + 1]

\* offline (): observer.disconnect()
Offline(c, node) ==
  [c EXCEPT !.observers[node] = @ - 1, !.stopped[node] = @ + 1]

\* source.subscribe(subscriber)
Subscribe(c, i, call) ==
  LET first == c.controllers[i].subscribers = {}
      c1 == [c EXCEPT !.controllers[i].subscribers = @ \cup {call}]
  IN  IF first THEN Online(c1, c1.controllers[i].node) ELSE c1

\* disposing one subscription
Unsubscribe(c, i, call) ==
  IF call \notin c.controllers[i].subscribers THEN c
  ELSE LET c1 == [c EXCEPT !.controllers[i].subscribers = @ \ {call}]
       IN  IF c1.controllers[i].subscribers = {}
           THEN Offline(c1, c1.controllers[i].node) ELSE c1

\* DOMConnectedness.observe
Observe(c, node, call) ==
  LET c1 == IF c.sources[node] = NULL
            THEN [c EXCEPT !.controllers = Append(@, [node |-> node, subscribers |-> {}]),
                           !.sources[node] = Len(c.controllers) + 1]
            ELSE c
  IN  Subscribe(c1, c1.sources[node], call)

\* source.event(connected): every current subscriber is notified
SourceEvent(c, i) ==
  [c EXCEPT !.received = [call \in Calls |->
                            IF call \in c.controllers[i].subscribers THEN @[call] + 1
                            ELSE @[call]],
            !.notified = @ \cup c.controllers[i].subscribers]

\* an onConnectionEvent that signals every source
RECURSIVE SignalAllSources(_, _)
SignalAllSources(c, i) ==
  IF i > Len(c.controllers) THEN c ELSE SignalAllSources(SourceEvent(c, i), i + 1)
OnConnectionEventToAll(c, entries) ==
  IF entries = <<>> THEN c ELSE SignalAllSources(c, 1)

RECURSIVE OnConnectionEvent(_, _)
\* onConnectionEvent
OnConnectionEvent(c, entries) ==
  IF entries = <<>> THEN c
  ELSE LET source == c.sources[Head(entries).target]
       IN  OnConnectionEvent(IF source # NULL THEN SourceEvent(c, source) ELSE c,
                             Tail(entries))

\* an abort that disposes nothing
KeepSubscriptions(c, calls) == c

RECURSIVE DisposeOnAbort(_, _)
\* the abort signal fires: disposeOnAbort disposes each subscription made
\* with it
DisposeOnAbort(c, calls) ==
  IF calls = {} THEN c
  ELSE LET call == CHOOSE x \in calls : TRUE
           holders == {i \in 1..Len(c.controllers) : call \in c.controllers[i].subscribers}
           c1 == IF holders = {} THEN c
                 ELSE Unsubscribe(c, CHOOSE i \in holders : TRUE, call)
       IN  DisposeOnAbort(c1, calls \ {call})

(***************************************************************************)
(* Dynamic list reconciler.                                                *)
(* Ranges handed to the controller are newly created ranges: ranges        *)
(* 1..NSolid wrap one node each (FromStaticNode, the node has the range's  *)
(* number), ranges NSolid+1..NSolid+NEmpty are empty.  A segment is named  *)
(* by the range it wraps.  The numbers bound how many ranges are in use at *)
(* the same time.                                                          *)
(***************************************************************************)
SolidRanges == 1..NSolid
EmptyRanges == (NSolid + 1)..(NSolid + NEmpty)
Ranges == SolidRanges \cup EmptyRanges
\* the static children of the parent around the controller's location
OuterPrev == NSolid + NEmpty + 1
OuterNext == NSolid + NEmpty + 2

LocationKinds == {"element", "next", "previous", "both"}

\* DOMNodeRange.firstActiveNode / lastActiveNode of the ranges above
RangeNodes(r) == IF r \in SolidRanges THEN <<r>> ELSE <<>>
RangeFirstActiveNode(r) == IF RangeNodes(r) = <<>> THEN NULL ELSE Head(RangeNodes(r))
RangeLastActiveNode(r) ==
  IF RangeNodes(r) = <<>> THEN NULL ELSE RangeNodes(r)[Len(RangeNodes(r))]

\* a controller location that never has a next outer sibling
CtlNextOuterSiblingNone(loc) == NULL

\* controller.location.previousOuterSibling / nextOuterSibling
CtlPreviousOuterSibling(loc) == IF loc \in {"previous", "both"} THEN OuterPrev ELSE NULL
CtlNextOuterSibling(loc) == IF loc \in {"next", "both"} THEN OuterNext ELSE NULL

RECURSIVE SegNextOuterSibling(_, _), FirstNodeOrNextOuterSibling(_, _)
\* DynamicDOMSegment.nextOuterSibling
SegNextOuterSibling(s, seg) ==
  IF s.nextOf[seg] # NULL THEN FirstNodeOrNextOuterSibling(s, s.nextOf[seg])
  ELSE CtlNextOuterSibling(s.location)
\* DynamicDOMSegment.firstNodeOrNextOuterSibling
FirstNodeOrNextOuterSibling(s, seg) ==
  IF RangeFirstActiveNode(seg) # NULL THEN RangeFirstActiveNode(seg)
  ELSE SegNextOuterSibling(s, seg)

RECURSIVE SegPreviousOuterSibling(_, _), LastNodeOrPreviousOuterSibling(_, _)
\* DynamicDOMSegment.previousOuterSibling
SegPreviousOuterSibling(s, seg) ==
  IF s.prevOf[seg] # NULL THEN LastNodeOrPreviousOuterSibling(s, s.prevOf[seg])
  ELSE CtlPreviousOuterSibling(s.location)
\* DynamicDOMSegment.lastNodeOrPreviousOuterSibling
LastNodeOrPreviousOuterSibling(s, seg) ==
  IF RangeLastActiveNode(seg) # NULL THEN RangeLastActiveNode(seg)
  ELSE SegPreviousOuterSibling(s, seg)

\* segment.location.append(node): the segment's props always carry both
\* getters, so DOMLocationPointer.from picks appendBeforeNextOuterSibling
SegAppend(s, seg, node) ==
  LET ref == SegNextOuterSibling(s, seg)
  IN  IF DomInsertThrows(s.dom, ref) THEN [s EXCEPT !.threw = TRUE]
      ELSE [s EXCEPT !.dom = DomInsertBefore(s.dom, node, ref)]

RECURSIVE SegAppendEach(_, _, _)
\* range.attachTo(segment.location) for the range's nodes, in order
SegAppendEach(s, seg, nodes) ==
  IF s.threw \/ nodes = <<>> THEN s
  ELSE SegAppendEach(SegAppend(s, seg, Head(nodes)), seg, Tail(nodes))

\* range.remove()
RangeRemove(s, r) == [s EXCEPT !.dom = RemoveNodes(s.dom, RangeNodes(r))]

\* DynamicDOMController.createAndAttachSegment
CreateAndAttachSegment(s, range, previous, next) ==
  LET s1 == IF previous # NULL
            THEN [s EXCEPT !.nextOf[previous] = range, !.prevOf[range] = previous]
            ELSE s
      s2 == IF next # NULL
            THEN [s1 EXCEPT !.prevOf[next] = range, !.nextOf[range] = next]
            ELSE s1
  IN  SegAppendEach(s2, range, RangeNodes(range))

LastElement(seq) == IF seq = <<>> THEN NULL ELSE seq[Len(seq)]
FirstElement(seq) == IF seq = <<>> THEN NULL ELSE seq[1]

RECURSIVE PushLoop(_, _, _)
PushLoop(s, ranges, previous) ==
  IF s.threw \/ ranges = <<>> THEN s
  ELSE LET s1 == CreateAndAttachSegment(s, Head(ranges), previous, NULL)
       IN  IF s1.threw THEN s1
           ELSE PushLoop([s1 EXCEPT !.segments = Append(s1.segments, Head(ranges))],
                         Tail(ranges), Head(ranges))
\* DynamicDOMController.push
Push(s, ranges) == PushLoop(s, ranges, LastElement(s.segments))

\* DynamicDOMController.pop
Pop(s) ==
  IF s.segments = <<>> THEN s
  ELSE LET last == s.segments[Len(s.segments)]
           s1 == RangeRemove([s EXCEPT !.segments = SubSeq(s.segments, 1, Len(s.segments) - 1)], last)
       IN  IF s1.prevOf[last] # NULL THEN [s1 EXCEPT !.nextOf[s1.prevOf[last]] = NULL] ELSE s1

RECURSIVE UnshiftLoop(_, _, _)
UnshiftLoop(s, ranges, next) ==
  IF s.threw \/ ranges = <<>> THEN s
  ELSE LET r == ranges[Len(ranges)]
           s1 == CreateAndAttachSegment(s, r, NULL, next)
       IN  IF s1.threw THEN s1
           ELSE UnshiftLoop([s1 EXCEPT !.segments = <<r>> \o s1.segments],
                            SubSeq(ranges, 1, Len(ranges) - 1), r)
\* DynamicDOMController.unshift
Unshift(s, ranges) == UnshiftLoop(s, ranges, FirstElement(s.segments))

\* DynamicDOMController.shift
Shift(s) ==
  IF s.segments = <<>> THEN s
  ELSE LET first == s.segments[1]
           s1 == RangeRemove([s EXCEPT !.segments = Tail(s.segments)], first)
       IN  IF s1.nextOf[first] # NULL THEN [s1 EXCEPT !.prevOf[s1.nextOf[first]] = NULL] ELSE s1

RECURSIVE SpliceRemove(_, _, _, _)
SpliceRemove(s, index, deletions, i) ==
  IF i >= deletions THEN s
  ELSE SpliceRemove(RangeRemove(s, s.segments[index + i + 1]), index, deletions, i + 1)

RECURSIVE SpliceInsert(_, _, _, _, _, _)
SpliceInsert(s, insertions, i, previous, next, newSegments) ==
  IF s.threw \/ i > Len(insertions) THEN [st |-> s, newSegments |-> newSegments]
  ELSE LET s1 == CreateAndAttachSegment(s, insertions[i],
                   IF i = 1 THEN previous ELSE newSegments[i - 1],
                   IF i = Len(insertions) THEN next ELSE NULL)
       IN  IF s1.threw THEN [st |-> s1, newSegments |-> newSegments]
           ELSE SpliceInsert(s1, insertions, i + 1, previous, next,
                             Append(newSegments, insertions[i]))

\* DynamicDOMController.splice (index is 0-based, as in the code)
Splice(s, index, deletions, insertions) ==
  LET previous == IF index > 0 THEN s.segments[index] ELSE NULL
      next == IF index + deletions < Len(s.segments)
              THEN s.segments[index + deletions + 1] ELSE NULL
      s1 == SpliceRemove(s, index, deletions, 0)
      r == SpliceInsert(s1, insertions, 1, previous, next, <<>>)
  IN  IF r.st.threw THEN r.st
      ELSE [r.st EXCEPT !.segments =
              SubSeq(s.segments, 1, index) \o r.newSegments
                \o SubSeq(s.segments, index + deletions + 1, Len(s.segments))]

\* DynamicDOMController.set (index is 0-based and addresses an element)
Set(s, index, range) ==
  LET s1 == RangeRemove(s, s.segments[index + 1])
      previous == IF index > 0 THEN s.segments[index] ELSE NULL
      next == IF index < Len(s.segments) - 1 THEN s.segments[index + 2] ELSE NULL
      s2 == CreateAndAttachSegment(s1, range, previous, next)
  IN  IF s2.threw THEN s2
      ELSE [s2 EXCEPT !.segments[index + 1] = range]

\* DynamicDOMController.signal
Signal(s, ev) ==
  CASE ev.kind = "push" -> Push(s, ev.values)
    [] ev.kind = "pop" -> Pop(s)
    [] ev.kind = "unshift" -> Unshift(s, ev.values)
    [] ev.kind = "shift" -> Shift(s)
    [] ev.kind = "splice" -> Splice(s, ev.index, ev.deletions, ev.values)
    [] ev.kind = "set" -> Set(s, ev.index, ev.values[1])

Event(kind, index, deletions, values) ==
  [kind |-> kind, index |-> index, deletions |-> deletions, values |-> values]

\* Segments that no segment of the controller's list leads to (through
\* __previous / __next) are unreachable objects: the collector frees them.
RECURSIVE Reachable(_, _)
Reachable(s, from) ==
  LET next == (from \cup {s.prevOf[r] : r \in from} \cup {s.nextOf[r] : r \in from}) \ {NULL}
  IN  IF next = from THEN from ELSE Reachable(s, next)
Collect(s) ==
  LET live == Reachable(s, {s.segments[i] : i \in 1..Len(s.segments)})
  IN  [s EXCEPT !.prevOf = [r \in Ranges |-> IF r \in live THEN s.prevOf[r] ELSE NULL],
                !.nextOf = [r \in Ranges |-> IF r \in live THEN s.nextOf[r] ELSE NULL]]
\* the ranges a reachable segment wraps or whose node is a child of the parent
InUse(s) ==
  Reachable(s, {s.segments[i] : i \in 1..Len(s.segments)})
    \cup {r \in Ranges : \E i \in 1..Len(RangeNodes(r)) : InSeq(RangeNodes(r)[i], s.dom)}

\* The ranges an event carries are new ranges: for each value the array
\* source either made a single-node range or an empty one.  A new range takes
\* the lowest number that no reachable segment and no child node uses.
KindSeqs == UNION {[1..n -> {"solid", "empty"}] : n \in 0..MaxIns}
CountOf(kinds, k) == Cardinality({i \in 1..Len(kinds) : kinds[i] = k})
NthOf(S, n) == CHOOSE x \in S : Cardinality({y \in S : y < x}) = n - 1
FreshRanges(s, kinds) ==
  [i \in 1..Len(kinds) |->
     IF kinds[i] = "solid"
     THEN NthOf(SolidRanges \ InUse(s), CountOf(SubSeq(kinds, 1, i), "solid"))
     ELSE NthOf(EmptyRanges \ InUse(s), CountOf(SubSeq(kinds, 1, i), "empty"))]
CanCreate(s, kinds) ==
  /\ CountOf(kinds, "solid") <= Cardinality(SolidRanges \ InUse(s))
  /\ CountOf(kinds, "empty") <= Cardinality(EmptyRanges \ InUse(s))

ListState ==
  [dom |-> dom, segments |-> segments, prevOf |-> prevOf, nextOf |-> nextOf,
   location |-> locationKind, threw |-> FALSE]

\* one event handled by the controller, and what the collector frees after it
Step(s, ev) == Collect(Signal([s EXCEPT !.threw = FALSE], ev))

\* the controller receives one event of its array source
Deliver(ev) ==
  LET s == Step(ListState, ev)
  IN  /\ delivered < MaxEvents
      /\ Len(s.segments) <= MaxLen
      /\ delivered' = delivered + 1
      /\ dom' = s.dom
      /\ segments' = s.segments
      /\ prevOf' = s.prevOf
      /\ nextOf' = s.nextOf
      /\ threw' = s.threw
      /\ lastKind' = ev.kind
      /\ UNCHANGED <<locationKind, rangeVars, pointerVars, bindingVars, connectVars, queryVars,
                 laterVars>>

ListInit ==
  /\ dom = <<OuterPrev, OuterNext>>
  /\ segments = <<>>
  /\ prevOf = [r \in Ranges |-> NULL]
  /\ nextOf = [r \in Ranges |-> NULL]
  /\ locationKind \in LocationKinds
  /\ lastKind = "none"
  /\ threw = FALSE
  /\ delivered = 0

OnPush ==
  \E kinds \in KindSeqs :
    /\ Len(kinds) >= 1 /\ CanCreate(ListState, kinds)
    /\ Deliver(Event("push", 0, 0, FreshRanges(ListState, kinds)))

OnPop == segments # <<>> /\ Deliver(Event("pop", 0, 0, <<>>))

OnUnshift ==
  \E kinds \in KindSeqs :
    /\ Len(kinds) >= 1 /\ CanCreate(ListState, kinds)
    /\ Deliver(Event("unshift", 0, 0, FreshRanges(ListState, kinds)))

OnShift == segments # <<>> /\ Deliver(Event("shift", 0, 0, <<>>))

OnSplice ==
  \E index \in 0..Len(segments) :
    \E deletions \in 0..(Len(segments) - index) :
      \E kinds \in KindSeqs :
        /\ deletions + Len(kinds) >= 1 /\ CanCreate(ListState, kinds)
        /\ Deliver(Event("splice", index, deletions, FreshRanges(ListState, kinds)))

OnSet ==
  \E index \in 0..(Len(segments) - 1) :
    \E kinds \in KindSeqs :
      /\ Len(kinds) = 1 /\ CanCreate(ListState, kinds)
      /\ Deliver(Event("set", index, 0, FreshRanges(ListState, kinds)))

ListNext == OnPush \/ OnPop \/ OnUnshift \/ OnShift \/ OnSplice \/ OnSet

ListIdle ==
  /\ segments = <<>>
  /\ prevOf = [r \in Ranges |-> NULL]
  /\ nextOf = [r \in Ranges |-> NULL]
  /\ locationKind = "none"
  /\ lastKind = "none"
  /\ threw = FALSE
  /\ delivered = 0

(***************************************************************************)
(* One DOMNodeRange and its caller.  The caller builds a range of one of   *)
(* the built-in kinds from nodes of its own, or a ConcatAll of such        *)
(* ranges, and then attaches it, removes it and reads its ends in any      *)
(* order.  The parent element has two children of its own.                 *)
(***************************************************************************)
\* most nodes of one static node array or one template
MaxNodes == 2
\* most sub-ranges of one ConcatAll
MaxRanges == 3
\* most runs of one driver's dispose that are followed
MaxDisposals == 2

\* node j of the i-th range the caller builds
NodeOf(i, j) == 10 * i + j
NodesOf(i, n) == [j \in 1..n |-> NodeOf(i, j)]

LeafSpecs ==
  {<<"Empty", 0>>, <<"FromStaticNode", 1>>}
    \cup ({"FromStaticNodeArray", "RenderedRange"} \X (0..MaxNodes))
\* the i-th range the caller builds, of the given kind and size
Leaf(spec, i) ==
  CASE spec[1] = "Empty" -> Empty
    [] spec[1] = "FromStaticNode" -> FromStaticNode(NodeOf(i, 1))
    [] spec[1] = "FromStaticNodeArray" -> FromStaticNodeArray(NodesOf(i, spec[2]))
    [] spec[1] = "RenderedRange" -> RenderedRange(NodesOf(i, spec[2]))
LeafSpecSeqs == UNION {[1..n -> LeafSpecs] : n \in 0..MaxRanges}
BuiltRanges ==
  {Leaf(spec, 1) : spec \in LeafSpecs}
    \cup {ConcatAll([i \in 1..Len(specs) |-> Leaf(specs[i], i)]) : specs \in LeafSpecSeqs}

\* the location the caller hands to attachTo
LocationOf(kind) ==
  CASE kind = "element" -> PointerFromElement
    [] kind = "next" -> PointerFromProps(UNDEFINED, OuterNext)
    [] kind = "previous" -> PointerFromProps(OuterPrev, UNDEFINED)
    [] kind = "both" -> PointerFromProps(OuterPrev, OuterNext)

RangeInit ==
  /\ dom = <<OuterPrev, OuterNext>>
  /\ nodeRange \in {r \in BuiltRanges : r.kind # "Error"}
  /\ attachedAt = "none"
  /\ called = "create"
  /\ before = "none"
  /\ returned = UNDEFINED
  /\ yielded = <<>>

RangeIdle ==
  /\ nodeRange = Empty
  /\ attachedAt = "none"
  /\ called = "none"
  /\ before = "none"
  /\ returned = UNDEFINED
  /\ yielded = <<>>

\* range.attachTo(location)
CallAttachTo ==
  \E kind \in LocationKinds :
    LET a == AttachTo(nodeRange, dom, LocationOf(kind))
    IN  /\ ~nodeRange.disposed
        /\ nodeRange' = a.range
        /\ dom' = a.dom
        /\ attachedAt' = kind
        /\ before' = called
        /\ called' = "attachTo"
        /\ UNCHANGED <<returned, yielded, listVars, pointerVars, bindingVars, connectVars,
                 queryVars, laterVars>>

\* range.remove()
CallRemove ==
  LET m == Remove(nodeRange, dom)
  IN  /\ ~nodeRange.disposed
      /\ nodeRange' = m.range
      /\ dom' = m.dom
      /\ before' = called
      /\ called' = "remove"
      /\ UNCHANGED <<attachedAt, returned, yielded, listVars, pointerVars, bindingVars, connectVars,
                 queryVars, laterVars>>

\* reading range.firstActiveNode
CallFirstActiveNode ==
  LET f == FirstActiveNode(nodeRange)
  IN  /\ ~nodeRange.disposed
      /\ nodeRange' = f.range
      /\ returned' = f.node
      /\ before' = called
      /\ called' = "firstActiveNode"
      /\ UNCHANGED <<dom, attachedAt, yielded, listVars, pointerVars, bindingVars, connectVars,
                 queryVars, laterVars>>

\* reading range.lastActiveNode
CallLastActiveNode ==
  LET l == LastActiveNode(nodeRange)
  IN  /\ ~nodeRange.disposed
      /\ nodeRange' = l.range
      /\ returned' = l.node
      /\ before' = called
      /\ called' = "lastActiveNode"
      /\ UNCHANGED <<dom, attachedAt, yielded, listVars, pointerVars, bindingVars, connectVars,
                 queryVars, laterVars>>

\* for (const node of range), run to its end, on a range that is attached
CallIterate ==
  LET it == Iterate(nodeRange, dom)
  IN  /\ ~nodeRange.disposed
      /\ IsAttached(nodeRange)
      /\ nodeRange' = it.range
      /\ yielded' = it.yielded
      /\ before' = called
      /\ called' = "iterate"
      /\ UNCHANGED <<dom, attachedAt, returned, listVars, pointerVars, bindingVars, connectVars,
                 queryVars, laterVars>>

\* dispose(range); a range that has been disposed is not used again
CallDispose ==
  /\ nodeRange.driverDisposals < MaxDisposals
  /\ nodeRange' = Dispose(nodeRange)
  /\ before' = called
  /\ called' = "dispose"
  /\ UNCHANGED <<dom, attachedAt, returned, yielded, listVars, pointerVars, bindingVars,
                 connectVars, queryVars, laterVars>>

RangeNext ==
  \/ CallAttachTo \/ CallRemove \/ CallFirstActiveNode \/ CallLastActiveNode
  \/ CallIterate \/ CallDispose

(***************************************************************************)
(* One DOMLocationPointer and its caller.  The caller builds a pointer     *)
(* from an element or from props whose anchors are absent, null or one of  *)
(* the parent's own two children, and appends nodes of its own through it. *)
(***************************************************************************)
\* number of nodes the caller of a pointer has
NPointerNodes == 3

PointerNodes == {NodeOf(1, j) : j \in 1..NPointerNodes}
\* the sequences of distinct nodes the caller may hand to appendEach
NodeSeqs ==
  {seq \in UNION {[1..n -> PointerNodes] : n \in 0..NPointerNodes} :
     \A i, j \in 1..Len(seq) : i # j => seq[i] # seq[j]}

\* the props a caller may give: each anchor absent, null or a child of the
\* parent; the next anchor a node, null or (isFunction) a function of the caller
BuiltProps ==
  [element : {FALSE}, previous : {UNDEFINED, NULL, OuterPrev},
   next : {UNDEFINED, NULL, OuterNext}, isFunction : BOOLEAN]

\* an Element given in place of props
ElementProps ==
  [element |-> TRUE, previous |-> UNDEFINED, next |-> UNDEFINED, isFunction |-> FALSE]

\* DOMLocationPointer.from(target)
PointerFrom(target) ==
  IF target.element THEN PointerFromElement
  ELSE PointerFromProps(target.previous, target.next)

PointerInit ==
  /\ dom = <<OuterPrev, OuterNext>>
  /\ props \in {ElementProps} \cup {p \in BuiltProps : p.isFunction => p.next # UNDEFINED}
  /\ pointer = PointerFrom(props)
  /\ appended = <<>>
  /\ anchor = IF props.isFunction THEN props.next ELSE NULL
  /\ anchoredAt = NULL

PointerIdle ==
  /\ pointer = NoLocation
  /\ appended = <<>>
  /\ props = ElementProps
  /\ anchor = NULL
  /\ anchoredAt = NULL

\* pointer.append(node)
CallAppend ==
  \E n \in PointerNodes :
    /\ dom' = PointerAppend(dom, Resolved(pointer, props.isFunction, anchor), n)
    /\ appended' = <<n>>
    /\ anchoredAt' = anchor
    /\ UNCHANGED <<pointer, props, anchor, listVars, rangeVars, bindingVars, connectVars,
                 queryVars, laterVars>>

\* pointer.appendEach(nodes)
CallAppendEach ==
  \E nodes \in NodeSeqs :
    /\ dom' = PointerAppendEach(dom, Resolved(pointer, props.isFunction, anchor), nodes)
    /\ appended' = nodes
    /\ anchoredAt' = anchor
    /\ UNCHANGED <<pointer, props, anchor, listVars, rangeVars, bindingVars, connectVars,
                 queryVars, laterVars>>

\* node.remove() by the caller, of a node its function does not return
CallNodeRemove ==
  \E n \in PointerNodes :
    /\ InSeq(n, dom)
    /\ n # anchor
    /\ dom' = DomRemove(dom, n)
    /\ appended' = <<>>
    /\ UNCHANGED <<pointer, props, anchor, anchoredAt, listVars, rangeVars, bindingVars, connectVars,
                 queryVars, laterVars>>

\* the caller's function comes to return another child of the parent, or null
CallerMovesAnchor ==
  \E n \in {NULL} \cup {dom[i] : i \in 1..Len(dom)} :
    /\ props.isFunction
    /\ n # anchor
    /\ anchor' = n
    /\ UNCHANGED <<dom, pointer, props, appended, anchoredAt, listVars, rangeVars, bindingVars, connectVars,
                 queryVars, laterVars>>

PointerNext == CallAppend \/ CallAppendEach \/ CallNodeRemove \/ CallerMovesAnchor

(***************************************************************************)
(* One scope, its owner, and the sources the owner binds.  The owner binds *)
(* names while the scope is live; asyncs are bound while unresolved.       *)
(***************************************************************************)
\* most values the owner and the reactive mapping source bind to names
MaxBindings == 2

Engines == {"Attributes", "Properties", "Aspects"}
\* the plain mappings the owner may bind
Mappings == [Names -> BindValues \cup {NONE}] \ {[n \in Names |-> NONE]}

\* a scope nothing is bound in yet
NewBinding(e) ==
  [engine |-> e, aborted |-> FALSE,
   value |-> [n \in Names |-> Absent], writer |-> [n \in Names |-> NONE],
   bound |-> [n \in Names |-> NONE],
   current |-> [s \in Streams |-> "1"], pending |-> <<>>, subs |-> <<>>,
   handles |-> {}, subscribed |-> FALSE,
   entries |-> [n \in Names |-> NONE], resolved |-> {}]

BindingInit ==
  /\ binding \in {NewBinding(e) : e \in Engines}
  /\ bindings = 0

BindingIdle ==
  /\ binding = NewBinding(NONE)
  /\ bindings = 0

Unresolved(values) == values \ binding.resolved
Size(mapping) == Cardinality({n \in Names : mapping[n] # NONE})
CanBind(n) == ~binding.aborted /\ bindings + n <= MaxBindings

\* Attributes.set(context, name, value) / ElementAssignableAspects.set(context,
\* driver, name, value)
OwnerSet ==
  \E name \in Names, value \in Unresolved(BindValues) :
    /\ CanBind(1)
    /\ binding' = SetEntry(binding, name, value)
    /\ bindings' = bindings + 1
    /\ UNCHANGED <<dom, listVars, rangeVars, pointerVars, connectVars, queryVars, laterVars>>

\* set(context, values) with a plain mapping
OwnerSetMapping ==
  \E mapping \in Mappings :
    /\ CanBind(Size(mapping))
    /\ \A n \in Names : mapping[n] \in Unresolved(BindValues) \cup {NONE}
    /\ binding' = SetFromImmediate(binding, [reactive |-> FALSE, entries |-> mapping])
    /\ bindings' = bindings + Size(mapping)
    /\ UNCHANGED <<dom, listVars, rangeVars, pointerVars, connectVars, queryVars, laterVars>>

\* whether the reactive mapping source can be subscribed now
CanSubscribe ==
  /\ ~binding.subscribed
  /\ \A n \in Names : binding.entries[n] \in Unresolved(BindValues) \cup {NONE}

\* set(context, values) with the reactive mapping source
OwnerSetSource ==
  /\ CanBind(0) /\ CanSubscribe
  /\ binding' = SetFromImmediate(binding, [reactive |-> TRUE, entries |-> binding.entries])
  /\ UNCHANGED bindings
  /\ UNCHANGED <<dom, listVars, rangeVars, pointerVars, connectVars, queryVars, laterVars>>

\* set(context, values) with the async mapping
OwnerSetAsync ==
  /\ CanBind(0)
  /\ MappingAsync \notin binding.resolved
  /\ \A i \in 1..Len(binding.pending) : binding.pending[i].async # MappingAsync
  /\ binding' = SetFromAsync(binding)
  /\ UNCHANGED bindings
  /\ UNCHANGED <<dom, listVars, rangeVars, pointerVars, connectVars, queryVars, laterVars>>

\* the reactive mapping source adds or changes an entry and tells its subscriber
SourceSet ==
  \E name \in Names, value \in Unresolved(BindValues) :
    /\ bindings < MaxBindings
    /\ binding' = LET b == [binding EXCEPT !.entries[name] = value]
                  IN  IF binding.subscribed THEN SetSourceEntry(b, name, value) ELSE b
    /\ bindings' = bindings + 1
    /\ UNCHANGED <<dom, listVars, rangeVars, pointerVars, connectVars, queryVars, laterVars>>

\* the reactive mapping source deletes an entry and tells its subscriber
SourceDelete ==
  \E name \in Names :
    /\ binding.entries[name] # NONE
    /\ binding' = LET b == [binding EXCEPT !.entries[name] = NONE]
                  IN  IF binding.subscribed THEN DeleteSourceEntry(b, name) ELSE b
    /\ UNCHANGED <<bindings, dom, listVars, rangeVars, pointerVars, connectVars, queryVars,
                 laterVars>>

\* a one-shot async resolves, to a literal, a streaming source or another async
Resolve ==
  \E async \in Unresolved(Asyncs) :
    \E value \in Unresolved(BindValues) \ {async} :
      /\ binding' = ResolveAsync(binding, async, value)
      /\ UNCHANGED <<bindings, dom, listVars, rangeVars, pointerVars, connectVars, queryVars,
                 laterVars>>

\* the async mapping resolves, to a plain mapping or the reactive mapping source
ResolveMapping ==
  /\ MappingAsync \notin binding.resolved
  /\ \E values \in {[reactive |-> FALSE, entries |-> m] : m \in Mappings}
                     \cup {[reactive |-> TRUE, entries |-> binding.entries]} :
       /\ values.reactive => CanSubscribe
       /\ \A n \in Names : values.entries[n] \in Unresolved(BindValues) \cup {NONE}
       /\ IF values.reactive THEN UNCHANGED bindings
          ELSE /\ bindings + Size(values.entries) <= MaxBindings
               /\ bindings' = bindings + Size(values.entries)
       /\ binding' = ResolveMappingAsync(binding, values)
  /\ UNCHANGED <<dom, listVars, rangeVars, pointerVars, connectVars, queryVars, laterVars>>

\* a streaming source emits a new value
SourceEmit ==
  \E source \in Streams :
    \E v \in Emissions \ {binding.current[source]} :
      /\ binding' = Emit(binding, source, v)
      /\ UNCHANGED <<bindings, dom, listVars, rangeVars, pointerVars, connectVars, queryVars,
                 laterVars>>

\* the scope is aborted
Abort ==
  /\ ~binding.aborted
  /\ binding' = AbortContext(binding)
  /\ UNCHANGED <<bindings, dom, listVars, rangeVars, pointerVars, connectVars, queryVars,
                 laterVars>>

BindingNext ==
  \/ OwnerSet \/ OwnerSetMapping \/ OwnerSetSource \/ OwnerSetAsync
  \/ SourceSet \/ SourceDelete \/ Resolve \/ ResolveMapping \/ SourceEmit \/ Abort

(***************************************************************************)
(* The connectedness observer and its callers.  Callers observe nodes,     *)
(* each call with an abort signal that has not fired; signals fire; the    *)
(* observers that are observing report connection changes of their node.   *)
(***************************************************************************)
ConnectInit ==
  /\ dom = <<>>
  /\ sources = [n \in ObservedNodes |-> NULL]
  /\ controllers = <<>>
  /\ observers = [n \in ObservedNodes |-> 0]
  /\ stopped = [n \in ObservedNodes |-> 0]
  /\ subscribed = [call \in Calls |-> NoCall]
  /\ abortedSignals = {}
  /\ received = [call \in Calls |-> 0]
  /\ records = 0
  /\ lastTargets = {}
  /\ lastNotified = {}

ConnectIdle ==
  /\ sources = [n \in ObservedNodes |-> NULL]
  /\ controllers = <<>>
  /\ observers = [n \in ObservedNodes |-> 0]
  /\ stopped = [n \in ObservedNodes |-> 0]
  /\ subscribed = [call \in Calls |-> NoCall]
  /\ abortedSignals = {}
  /\ received = [call \in Calls |-> 0]
  /\ records = 0
  /\ lastTargets = {}
  /\ lastNotified = {}

\* what an operation leaves of the connectedness state
Connected(c) ==
  /\ sources' = c.sources
  /\ controllers' = c.controllers
  /\ observers' = c.observers
  /\ stopped' = c.stopped
  /\ received' = c.received

\* a caller calls DOMConnectedness.observe(abortSignal, node, subscriber)
CallObserve ==
  \E call \in Calls : \E node \in ObservedNodes : \E signal \in Signals \ abortedSignals :
    /\ subscribed[call] = NoCall
    /\ \A earlier \in 1..(call - 1) : subscribed[earlier] # NoCall
    /\ Connected(Observe(ConnectState, node, call))
    /\ subscribed' = [subscribed EXCEPT ![call] = [node |-> node, signal |-> signal]]
    /\ UNCHANGED <<abortedSignals, records, lastTargets, lastNotified>>
    /\ UNCHANGED <<dom, listVars, rangeVars, pointerVars, bindingVars, queryVars, laterVars>>

\* an abort signal fires
SignalAborts ==
  \E signal \in Signals \ abortedSignals :
    /\ abortedSignals' = abortedSignals \cup {signal}
    /\ Connected(DisposeOnAbort(ConnectState,
                                {call \in Calls : subscribed[call].signal = signal}))
    /\ UNCHANGED <<subscribed, records, lastTargets, lastNotified>>
    /\ UNCHANGED <<dom, listVars, rangeVars, pointerVars, bindingVars, queryVars, laterVars>>

\* an observer that observes the node calls back with entries about it
ConnectionEvent ==
  \E node \in ObservedNodes : \E n \in 1..MaxEntries :
    \E connected \in [1..n -> BOOLEAN] :
      LET entries == [k \in 1..n |-> [connected |-> connected[k], target |-> node]]
          c == OnConnectionEvent(ConnectState, entries)
      IN  /\ records < MaxRecords
          /\ observers[node] > 0
          /\ Connected(c)
          /\ records' = records + 1
          /\ lastTargets' = {node}
          /\ lastNotified' = c.notified
          /\ UNCHANGED <<subscribed, abortedSignals>>
          /\ UNCHANGED <<dom, listVars, rangeVars, pointerVars, bindingVars, queryVars, laterVars>>

ConnectNext == CallObserve \/ SignalAborts \/ ConnectionEvent

(***************************************************************************)
(* Typed nodes and the queries of DOMNodeRange.  A node is a Text node, an *)
(* HTMLElement or an SVGElement.  An element may have the class "c", the   *)
(* id "i" (while its id attribute has not been removed) and one descendant *)
(* element.  The parent's own two children are HTMLElements with neither.  *)
(***************************************************************************)
\* most nodes of the range that is queried
MaxQueryNodes == 2

aText == NodeOf(1, 1)
\* <div class="c"><span id="i"></span></div>
aDiv == NodeOf(1, 2)
aSpan == NodeOf(2, 1)
\* <svg class="c" id="i"></svg>
aSvg == NodeOf(1, 3)

TopNodes == {aText, aDiv, aSvg}
TypeOf(n) ==
  IF n = aText THEN "Text" ELSE IF n = aSvg THEN "SVGElement" ELSE "HTMLElement"
WithClass == {aDiv, aSvg}
WithId == {aSpan, aSvg}
Descendant(n) == IF n = aDiv THEN aSpan ELSE NULL

\* node instanceof Element
IsElement(n) == TypeOf(n) # "Text"
\* node instanceof ctor
InstanceOf(n, ctor) == IF ctor = "Element" THEN IsElement(n) ELSE TypeOf(n) = ctor

\* the selectors a caller queries with, and the values of the parameter as
Selectors == {"#i", ".c"}
Constructors == {"undefined", "SVGElement"}

\* element.matches(selector)
Matches(n, selector, ids) == IF selector = "#i" THEN n \in ids ELSE n \in WithClass
\* element.querySelector(selector)
ElementQuerySelector(n, selector, ids) ==
  IF Descendant(n) # NULL /\ Matches(Descendant(n), selector, ids) THEN Descendant(n)
  ELSE NULL

\* node.previousSibling
PreviousSibling(ch, n) ==
  IF InSeq(n, ch) /\ IndexOf(n, ch) > 1 THEN ch[IndexOf(n, ch) - 1] ELSE NULL
\* element.nextElementSibling
NextElementSibling(ch, n) ==
  IF ~InSeq(n, ch) THEN NULL
  ELSE LET later == {i \in (IndexOf(n, ch) + 1)..Len(ch) : IsElement(ch[i])}
       IN  IF later = {} THEN NULL
           ELSE ch[CHOOSE i \in later : \A j \in later : i <= j]

\* a query: the member used, and the selector and the constructor it is given
QueryWith(name, selector, as) == [name |-> name, selector |-> selector, as |-> as]
Query(name) == QueryWith(name, "", "undefined")

\* what a query gives: a value it returns, or an error it throws; message is
\* the selector text the error's message contains
Returned(node) == [kind |-> "returned", node |-> node, message |-> ""]
Thrown(kind, message) == [kind |-> kind, node |-> NULL, message |-> message]

\* a getter's answer: the node it returns and the range as the getter leaves it
At(r, node) == [range |-> r, node |-> node]

RECURSIVE FirstElementFrom(_, _), FirstElementPast(_, _, _)
\* the loop of DOMNodeRange.firstActiveElement, at at.node
FirstElementFrom(at, ch) ==
  IF at.node = NULL \/ IsElement(at.node) THEN at
  ELSE FirstElementPast(LastActiveNode(at.range), ch, at.node)
\* the rest of the loop's body, last being this.lastActiveNode
FirstElementPast(last, ch, node) ==
  IF node = last.node THEN At(last.range, NULL)
  ELSE FirstElementFrom(At(last.range, NextSibling(ch, node)), ch)
\* this.#firstActiveElement = node
CacheFirstElement(at) == At([at.range EXCEPT !.cachedFirstElement = at.node], at.node)
\* DOMNodeRange.firstActiveElement
FirstActiveElement(r, ch) ==
  IF r.cachedFirstElement # UNDEFINED THEN At(r, r.cachedFirstElement)
  ELSE CacheFirstElement(FirstElementFrom(FirstActiveNode(r), ch))

RECURSIVE LastElementFrom(_, _), LastElementPast(_, _, _)
\* the loop of DOMNodeRange.lastActiveElement, at at.node
LastElementFrom(at, ch) ==
  IF at.node = NULL \/ IsElement(at.node) THEN at
  ELSE LastElementPast(FirstActiveNode(at.range), ch, at.node)
\* the rest of the loop's body, first being this.firstActiveNode
LastElementPast(first, ch, node) ==
  IF node = first.node THEN At(first.range, NULL)
  ELSE LastElementFrom(At(first.range, PreviousSibling(ch, node)), ch)
\* this.#lastActiveElement = node
CacheLastElement(at) == At([at.range EXCEPT !.cachedLastElement = at.node], at.node)
\* DOMNodeRange.lastActiveElement
LastActiveElement(r, ch) ==
  IF r.cachedLastElement # UNDEFINED THEN At(r, r.cachedLastElement)
  ELSE CacheLastElement(LastElementFrom(LastActiveNode(r), ch))

RECURSIVE NodeOfTypeFrom(_, _, _)
\* the loop of DOMNodeRange.firstActiveNodeOfType, at at.node
NodeOfTypeFrom(at, ch, ctor) ==
  IF at.node = NULL \/ InstanceOf(at.node, ctor) THEN at
  ELSE NodeOfTypeFrom(At(at.range, NextSibling(ch, at.node)), ch, ctor)
\* DOMNodeRange.firstActiveNodeOfType
FirstActiveNodeOfType(r, ch, ctor) == NodeOfTypeFrom(FirstActiveNode(r), ch, ctor)
\* if (!this.isImmutable) this.#firstActiveHTMLElement = element
CacheFirstHTMLElement(at) ==
  IF ~IsImmutable(at.range)
  THEN At([at.range EXCEPT !.cachedFirstHTMLElement = at.node], at.node)
  ELSE at
\* DOMNodeRange.firstActiveHTMLElement
FirstActiveHTMLElement(r, ch) ==
  IF r.cachedFirstHTMLElement # UNDEFINED THEN At(r, r.cachedFirstHTMLElement)
  ELSE CacheFirstHTMLElement(FirstActiveNodeOfType(r, ch, "HTMLElement"))

\* a query's outcome: its result and the range as the query leaves it
Outcome(r, result) == [range |-> r, result |-> result]

\* firstActiveNodeRequired, lastActiveNodeRequired, firstActiveElementRequired,
\* firstActiveHTMLElementRequired: the getter's value, or an error when it is null
Required(at) ==
  Outcome(at.range, IF at.node = NULL THEN Thrown("NotFound", "") ELSE Returned(at.node))

\* querySelector: what a match for the selector gives
Matched(match, selector, as) ==
  IF as = "undefined" \/ InstanceOf(match, as) THEN Returned(match)
  ELSE Thrown("TypeMismatch", selector)

\* current.matches(selector) ? current : current.querySelector(selector)
MatchAt(current, selector, ids) ==
  IF Matches(current, selector, ids) THEN current
  ELSE ElementQuerySelector(current, selector, ids)

RECURSIVE QuerySelectorFrom(_, _, _, _, _), QuerySelectorPast(_, _, _, _, _, _)
\* the loop of DOMNodeRange.querySelector, at at.node
QuerySelectorFrom(at, ch, ids, selector, as) ==
  IF at.node = NULL THEN Outcome(at.range, Returned(NULL))
  ELSE IF MatchAt(at.node, selector, ids) # NULL
  THEN Outcome(at.range, Matched(MatchAt(at.node, selector, ids), selector, as))
  ELSE QuerySelectorPast(LastActiveElement(at.range, ch), ch, ids, selector, as, at.node)
\* the rest of the loop's body, last being this.lastActiveElement
QuerySelectorPast(last, ch, ids, selector, as, current) ==
  IF current = last.node THEN Outcome(last.range, Returned(NULL))
  ELSE QuerySelectorFrom(At(last.range, NextElementSibling(ch, current)), ch, ids,
                         selector, as)
\* DOMNodeRange.querySelector(selector, as) of dom-node-range.ts
QuerySelectorChecked(r, ch, ids, selector, as) ==
  QuerySelectorFrom(FirstActiveElement(r, ch), ch, ids, selector, as)

\* currentNode.querySelector(selector) of an element that does not match
ResultAt(currentNode, selector, ids) ==
  IF IsElement(currentNode) THEN ElementQuerySelector(currentNode, selector, ids) ELSE NULL

RECURSIVE QuerySelectorFrom001(_, _, _, _, _), QuerySelectorPast001(_, _, _, _, _, _)
\* the loop of the other DOMNodeRange.querySelector, at at.node
QuerySelectorFrom001(at, ch, ids, selector, as) ==
  IF at.node = NULL THEN Outcome(at.range, Returned(NULL))
  ELSE IF IsElement(at.node) /\ Matches(at.node, selector, ids)
  THEN Outcome(at.range, Returned(at.node))
  ELSE IF ResultAt(at.node, selector, ids) # NULL
  THEN Outcome(at.range, Matched(ResultAt(at.node, selector, ids), selector, as))
  ELSE QuerySelectorPast001(LastActiveNode(at.range), ch, ids, selector, as, at.node)
\* the rest of the loop's body, lastNode being this.lastActiveNode
QuerySelectorPast001(lastNode, ch, ids, selector, as, currentNode) ==
  IF currentNode = lastNode.node THEN Outcome(lastNode.range, Returned(NULL))
  ELSE QuerySelectorFrom001(At(lastNode.range, NextSibling(ch, currentNode)), ch, ids,
                            selector, as)
\* DOMNodeRange.querySelector(selector, as) of the other class
QuerySelector001(r, ch, ids, selector, as) ==
  QuerySelectorFrom001(FirstActiveNode(r), ch, ids, selector, as)

Versions == {"dom-node-range.ts", "part_001"}
\* range.querySelector(selector, as), of the class the range is of
QuerySelector(r, v, ch, ids, selector, as) ==
  IF v = "part_001" THEN QuerySelector001(r, ch, ids, selector, as)
  ELSE QuerySelectorChecked(r, ch, ids, selector, as)

\* if (isNull(element)) throw
RequireElement(q, selector) ==
  IF q.result.kind = "returned" /\ q.result.node = NULL
  THEN Outcome(q.range, Thrown("NotFound", selector))
  ELSE q
\* DOMNodeRange.querySelectorRequired(selector, as)
QuerySelectorRequired(r, v, ch, ids, selector, as) ==
  RequireElement(QuerySelector(r, v, ch, ids, selector, as), selector)

\* element.removeAttribute('id'); idcache.set(id, element), unless the query threw
Extracted(q, ids, cached) ==
  IF q.result.kind # "returned"
  THEN [range |-> q.range, result |-> q.result, ids |-> ids, cached |-> cached]
  ELSE [range |-> q.range, result |-> q.result, ids |-> ids \ {q.result.node},
        cached |-> q.result.node]

\* an extractById that asks the range each time
ExtractByIdUncached(r, v, ch, ids, cached, as) ==
  Extracted(QuerySelectorRequired(r, v, ch, ids, "#i", as), ids, cached)

\* HTMLTemplate.extractById("i", as, range); cached is what the range's id
\* cache holds for the id (undefined when the range has no cache yet or the
\* cache has no entry for it)
ExtractById(r, v, ch, ids, cached, as) ==
  IF cached # UNDEFINED
  THEN [range |-> r, result |-> Returned(cached), ids |-> ids, cached |-> cached]
  ELSE Extracted(QuerySelectorRequired(r, v, ch, ids, "#i", as), ids, cached)

(***************************************************************************)
(* One DOMNodeRange of typed nodes and the caller that queries it.  The    *)
(* range is a static node array or a template-rendered range that the      *)
(* caller has attached between the parent's two children, or a range with  *)
(* a driver of the caller's own over children of the parent: a mutable one *)
(* whose ends the driver moves, or an immutable one inside a ConcatAll.    *)
(***************************************************************************)
\* the node sequences the caller builds ranges from
Contents ==
  {c \in UNION {[1..n -> TopNodes] : n \in 0..MaxQueryNodes} :
     \A i, j \in 1..Len(c) : i # j => c[i] # c[j]}

\* the ends a driver of the caller's own may report over the content
Windows(c) ==
  {<<NULL, NULL>>}
    \cup {<<c[p[1]], c[p[2]]>> : p \in {q \in (1..Len(c)) \X (1..Len(c)) : q[1] <= q[2]}}
\* the ends an inconsistent driver may report
Ends(c) == ({NULL} \cup {c[i] : i \in 1..Len(c)}) \X ({NULL} \cup {c[i] : i \in 1..Len(c)})

\* the children of the parent between its own two children
Between(ch) == SubSeq(ch, 2, Len(ch) - 1)

\* the range and the children of the parent, once the caller has built the
\* range and, for the built-in kinds, attached it
QueryStarts ==
  {AttachTo(r, <<OuterPrev, OuterNext>>, LocationOf(kind)) :
     r \in {FromStaticNodeArray(c) : c \in Contents} \cup {RenderedRange(c) : c \in Contents},
     kind \in {"previous", "both"}}
  \cup UNION {{[range |-> Custom(w[1], w[2], FALSE),
                dom |-> <<OuterPrev>> \o c \o <<OuterNext>>] :
                 w \in Windows(c)}
              : c \in Contents}
  \cup UNION {{[range |-> ConcatAll(<<Custom(e[1], e[2], TRUE)>>),
                dom |-> <<OuterPrev>> \o c \o <<OuterNext>>] : e \in Ends(c)}
              : c \in Contents}

QueryInit ==
  /\ \E start \in {s \in QueryStarts : s.range.kind # "Error"} :
       /\ queryRange = start.range
       /\ dom = start.dom
  /\ version \in Versions
  /\ hasId = WithId
  /\ idcache = UNDEFINED
  /\ queryCalled = Query("create")
  /\ queryResult = Returned(NULL)

QueryIdle ==
  /\ queryRange = Empty
  /\ version = "none"
  /\ hasId = {}
  /\ idcache = UNDEFINED
  /\ queryCalled = Query("none")
  /\ queryResult = Returned(NULL)

\* a template-rendered range read after its disposal imports its template
\* anew; the nodes it then holds are no children of the parent, so of such a
\* range only the reads of its two ends are followed
Walkable == ~(queryRange.kind = "RenderedRange" /\ queryRange.disposed)

\* the caller makes a query and gets its outcome
Answer(query, got) ==
  /\ queryRange' = got.range
  /\ queryCalled' = query
  /\ queryResult' = got.result
  /\ UNCHANGED <<dom, version, hasId, idcache, listVars, rangeVars, pointerVars,
                 bindingVars, connectVars, laterVars>>

\* a getter's value as the outcome of a query
Got(at) == Outcome(at.range, Returned(at.node))

\* reading range.firstActiveNode
QueryFirstActiveNode ==
  /\ version \in Versions
  /\ Answer(Query("firstActiveNode"), Got(FirstActiveNode(queryRange)))
\* reading range.lastActiveNode
QueryLastActiveNode ==
  /\ version \in Versions
  /\ Answer(Query("lastActiveNode"), Got(LastActiveNode(queryRange)))
\* reading range.firstActiveElement
QueryFirstActiveElement ==
  Walkable /\ Answer(Query("firstActiveElement"), Got(FirstActiveElement(queryRange, dom)))
\* reading range.lastActiveElement
QueryLastActiveElement ==
  Walkable /\ Answer(Query("lastActiveElement"), Got(LastActiveElement(queryRange, dom)))
\* reading range.firstActiveHTMLElement
QueryFirstActiveHTMLElement ==
  /\ Walkable /\ version = "dom-node-range.ts"
  /\ Answer(Query("firstActiveHTMLElement"), Got(FirstActiveHTMLElement(queryRange, dom)))

\* reading range.firstActiveNodeRequired
QueryFirstActiveNodeRequired ==
  /\ version \in Versions
  /\ Answer(Query("firstActiveNodeRequired"), Required(FirstActiveNode(queryRange)))
\* reading range.lastActiveNodeRequired
QueryLastActiveNodeRequired ==
  /\ version \in Versions
  /\ Answer(Query("lastActiveNodeRequired"), Required(LastActiveNode(queryRange)))
\* reading range.firstActiveElementRequired
QueryFirstActiveElementRequired ==
  /\ Walkable
  /\ Answer(Query("firstActiveElementRequired"), Required(FirstActiveElement(queryRange, dom)))
\* reading range.firstActiveHTMLElementRequired
QueryFirstActiveHTMLElementRequired ==
  /\ Walkable /\ version = "dom-node-range.ts"
  /\ Answer(Query("firstActiveHTMLElementRequired"),
            Required(FirstActiveHTMLElement(queryRange, dom)))

\* range.querySelector(selector, as)
CallQuerySelector ==
  \E selector \in Selectors, as \in Constructors :
    /\ Walkable
    /\ Answer(QueryWith("querySelector", selector, as),
              QuerySelector(queryRange, version, dom, hasId, selector, as))

\* range.querySelectorRequired(selector, as)
CallQuerySelectorRequired ==
  \E selector \in Selectors, as \in Constructors :
    /\ Walkable
    /\ Answer(QueryWith("querySelectorRequired", selector, as),
              QuerySelectorRequired(queryRange, version, dom, hasId, selector, as))

\* the caller extracts an element by id and gets the outcome
Extract(as, x) ==
  /\ queryRange' = x.range
  /\ hasId' = x.ids
  /\ idcache' = x.cached
  /\ queryCalled' = QueryWith("extractById", "#i", as)
  /\ queryResult' = x.result
  /\ UNCHANGED <<dom, version, listVars, rangeVars, pointerVars, bindingVars,
                 connectVars, laterVars>>

\* HTMLTemplate.extractById("i", as, range)
CallExtractById ==
  \E as \in Constructors :
    /\ Walkable
    /\ Extract(as, ExtractById(queryRange, version, dom, hasId, idcache, as))

\* dispose(range)
CallDisposeQueried ==
  /\ ~queryRange.disposed
  /\ queryRange' = Dispose(queryRange)
  /\ queryCalled' = Query("dispose")
  /\ queryResult' = Returned(NULL)
  /\ UNCHANGED <<dom, version, hasId, idcache, listVars, rangeVars, pointerVars,
                 bindingVars, connectVars, laterVars>>

\* the driver of a mutable range comes to report other ends
DriverChanges ==
  /\ queryRange.kind = "Custom" /\ ~IsImmutable(queryRange)
  /\ \E w \in Windows(Between(dom)) :
       /\ w # <<queryRange.firstActiveNode, queryRange.lastActiveNode>>
       /\ queryRange' = [queryRange EXCEPT !.firstActiveNode = w[1],
                                           !.lastActiveNode = w[2]]
  /\ queryCalled' = Query("change")
  /\ queryResult' = Returned(NULL)
  /\ UNCHANGED <<dom, version, hasId, idcache, listVars, rangeVars, pointerVars,
                 bindingVars, connectVars, laterVars>>

QueryNext ==
  \/ QueryFirstActiveNode \/ QueryLastActiveNode \/ QueryFirstActiveElement
  \/ QueryLastActiveElement \/ QueryFirstActiveHTMLElement
  \/ QueryFirstActiveNodeRequired \/ QueryLastActiveNodeRequired
  \/ QueryFirstActiveElementRequired \/ QueryFirstActiveHTMLElementRequired
  \/ CallQuerySelector \/ CallQuerySelectorRequired \/ CallExtractById
  \/ CallDisposeQueried \/ DriverChanges

(***************************************************************************)
(* qualifyAttributeName.  An attribute name is a sequence of pieces: a     *)
(* colon, or a run of characters that holds no colon.                      *)
(***************************************************************************)
\* most pieces of an attribute name
MaxNameLen == 3
Colon == ":"
\* runs of characters without a colon; no run is a part of another
Runs == {"svg", "xlink", "xml", "xmlns", "href", "data-x"}
RECURSIVE NamesOfLen(_)
NamesOfLen(n) ==
  IF n = 0 THEN {<<>>}
  ELSE {Append(name, piece) : name \in NamesOfLen(n - 1), piece \in Runs \cup {Colon}}
\* the names of at most n pieces
NamesUpTo(n) == UNION {NamesOfLen(k) : k \in 0..n}
AttrNames == NamesUpTo(MaxNameLen) \ {<<>>}

\* name.lastIndexOf(':'), 0-based, -1 when there is none
LastIndexOfColon(name) ==
  IF \A k \in 1..Len(name) : name[k] # Colon THEN -1
  ELSE (CHOOSE k \in 1..Len(name) :
          name[k] = Colon /\ \A j \in (k + 1)..Len(name) : name[j] # Colon) - 1
\* name.indexOf(':'), 0-based, -1 when there is none
IndexOfColon(name) ==
  IF \A k \in 1..Len(name) : name[k] # Colon THEN -1
  ELSE (CHOOSE k \in 1..Len(name) :
          name[k] = Colon /\ \A j \in 1..(k - 1) : name[j] # Colon) - 1
\* name.slice(from): the pieces from the 0-based index on
SliceFrom(name, from) == SubSeq(name, from + 1, Len(name))
\* name.slice(0, to): the pieces before the 0-based index
SliceTo(name, to) == SubSeq(name, 1, to)

NoNamespace == "null"
Qualified(namespace, name) == [namespace |-> namespace, name |-> name]
\* the switch of qualifyAttributeName over the prefix
QualifyWithPrefix(name, i_colon, prefix) ==
  CASE prefix = <<"svg">> ->
         Qualified("http://www.w3.org/2000/svg", SliceFrom(name, i_colon + 1))
    [] prefix = <<"xlink">> ->
         Qualified("http://www.w3.org/1999/xlink", SliceFrom(name, i_colon + 1))
    [] prefix = <<"xml">> ->
         Qualified("http://www.w3.org/XML/1998/namespace", SliceFrom(name, i_colon + 1))
    [] prefix = <<"xmlns">> ->
         Qualified("http://www.w3.org/2000/xmlns/", SliceFrom(name, i_colon + 1))
    [] OTHER -> Qualified(NoNamespace, name)
\* qualifyAttributeName, from the index of the colon on
QualifyAt(name, i_colon) ==
  IF i_colon = -1 THEN Qualified(NoNamespace, name)
  ELSE QualifyWithPrefix(name, i_colon, SliceTo(name, i_colon))
\* qualifyAttributeName(name)
QualifyAttributeName(name) == QualifyAt(name, IndexOfColon(name))

\* no call made yet with the name
NotQualified == Qualified("none", <<>>)

QualifyInit ==
  /\ attrName \in AttrNames
  /\ qname = NotQualified

QualifyIdle ==
  /\ attrName = <<>>
  /\ qname = NotQualified

\* setAttribute calls qualifyAttributeName(name)
CallQualifyAttributeName ==
  /\ qname = NotQualified
  /\ qname' = QualifyAttributeName(attrName)
  /\ UNCHANGED <<attrName, notQualifyVars>>

\* the caller turns to another name
AnotherName ==
  /\ qname # NotQualified
  /\ attrName' \in AttrNames \ {attrName}
  /\ qname' = NotQualified
  /\ UNCHANGED notQualifyVars

QualifyNext == CallQualifyAttributeName \/ AnotherName

(***************************************************************************)
(* WebSocketClient.  The client makes one WebSocket per connection         *)
(* attempt; a socket is "connecting" until the server's 'ready' message    *)
(* arrives ("ready"), and "closed" once it failed or was closed.  A        *)
(* failing attempt fires 'error' and then 'close'.                         *)
(***************************************************************************)
\* most WebSockets the client makes
MaxSockets == 3
\* most messages the caller passes to send
MaxSends == 2
ClientVersions == {"part_004", "dom-events.ts"}

Undefined == [defined |-> FALSE, messages |-> <<>>]
Buffer(messages) == [defined |-> TRUE, messages |-> messages]

\* a client: the fields of WebSocketClient, its sockets and timers, and what
\* became of the messages
Client(v, s, n, w, b, r, t) ==
  [version |-> v, sock |-> s, created |-> n, ws |-> w, buffer |-> b,
   reconnectScheduled |-> r, timers |-> t]

\* WebSocketClient.#connect: the buffer is set to a new array and a
\* WebSocket is made
Connect(c) ==
  [c EXCEPT !.buffer = Buffer(<<>>), !.created = @ + 1, !.sock[c.created + 1] = "connecting"]

\* WebSocketClient.#scheduleReconnect
ScheduleReconnect(c) ==
  IF c.reconnectScheduled THEN c
  ELSE [c EXCEPT !.reconnectScheduled = TRUE, !.timers = @ + 1]

\* the callback of the timer of #scheduleReconnect: the class of part_004
\* clears the flag before it connects, the class of dom-events.ts does not
ReconnectTimer(c) ==
  Connect([c EXCEPT !.timers = @ - 1,
                    !.reconnectScheduled = IF c.version = "part_004" THEN FALSE ELSE @])

\* the client now
ClientNow ==
  Client(clientVersion, sock, created, ws, buffer, reconnectScheduled, timers)
\* the client becomes c
Becomes(c) ==
  /\ sock' = c.sock /\ created' = c.created /\ ws' = c.ws /\ buffer' = c.buffer
  /\ reconnectScheduled' = c.reconnectScheduled /\ timers' = c.timers
  /\ UNCHANGED clientVersion

\* the client is c
IsClient(c) ==
  /\ sock = c.sock /\ created = c.created /\ ws = c.ws /\ buffer = c.buffer
  /\ reconnectScheduled = c.reconnectScheduled /\ timers = c.timers

NoSocket == "none"
\* WebSocketClient.initialize: a client is made and connects
SocketInit ==
  /\ clientVersion \in ClientVersions
  /\ IsClient(Connect(Client(clientVersion, [s \in 1..MaxSockets |-> NoSocket], 0, 0,
                             Undefined, FALSE, 0)))
  /\ sends = 0 /\ queued = <<>> /\ flushed = <<>> /\ wire = <<>> /\ dropped = {}

SocketIdle ==
  /\ clientVersion = "none"
  /\ sock = [s \in 1..MaxSockets |-> NoSocket]
  /\ created = 0 /\ ws = 0 /\ buffer = Undefined
  /\ reconnectScheduled = FALSE /\ timers = 0
  /\ sends = 0 /\ queued = <<>> /\ flushed = <<>> /\ wire = <<>> /\ dropped = {}

\* WebSocketClient.send(message): buffered while #buffer is set, else handed
\* to #ws, which transmits it if it is open and discards it if it is closed
CallSend ==
  /\ sends < MaxSends
  /\ sends' = sends + 1
  /\ IF buffer.defined
     THEN /\ buffer' = Buffer(Append(buffer.messages, sends + 1))
          /\ queued' = Append(queued, sends + 1)
          /\ UNCHANGED <<wire, dropped>>
     ELSE /\ IF sock[ws] = "ready"
             THEN wire' = Append(wire, [socket |-> ws, message |-> sends + 1])
                  /\ UNCHANGED dropped
             ELSE dropped' = dropped \cup {sends + 1} /\ UNCHANGED wire
          /\ UNCHANGED <<buffer, queued>>
  /\ UNCHANGED <<clientVersion, sock, created, ws, reconnectScheduled, timers, flushed,
                 notSocketVars>>

\* the 'ready' message arrives on a connecting socket: initialListener sets
\* #ws and flushes the buffer
ServerReady ==
  \E s \in 1..MaxSockets :
    /\ sock[s] = "connecting"
    /\ sock' = [sock EXCEPT ![s] = "ready"]
    /\ ws' = s
    /\ buffer' = Undefined
    /\ flushed' = buffer.messages
    /\ wire' = wire \o [i \in 1..Len(buffer.messages) |->
                          [socket |-> s, message |-> buffer.messages[i]]]
    /\ queued' = <<>>
    /\ UNCHANGED <<clientVersion, created, reconnectScheduled, timers, sends, dropped,
                   notSocketVars>>

\* a connection attempt fails: the 'error' listener and then the 'close'
\* listener run, each calling #scheduleReconnect
SocketFails ==
  \E s \in 1..(MaxSockets - 1) :
    /\ sock[s] = "connecting"
    /\ Becomes(ScheduleReconnect(ScheduleReconnect([ClientNow EXCEPT !.sock[s] = "closed"])))
    /\ UNCHANGED <<sends, queued, flushed, wire, dropped, notSocketVars>>

\* a connection is closed: the 'close' listener runs
SocketCloses ==
  \E s \in 1..(MaxSockets - 1) :
    /\ sock[s] = "ready"
    /\ Becomes(ScheduleReconnect([ClientNow EXCEPT !.sock[s] = "closed"]))
    /\ UNCHANGED <<sends, queued, flushed, wire, dropped, notSocketVars>>

\* a reconnect timer fires
TimerFires ==
  /\ timers > 0
  /\ Becomes(ReconnectTimer(ClientNow))
  /\ UNCHANGED <<sends, queued, flushed, wire, dropped, notSocketVars>>

SocketNext == CallSend \/ ServerReady \/ SocketFails \/ SocketCloses \/ TimerFires

(***************************************************************************)
(* ServerBridge.  Each request has a ref and an abort signal of its own;   *)
(* the server answers each request once, also one whose Cancel is still    *)
(* on its way.                                                             *)
(***************************************************************************)
\* most requests made
MaxRequests == 2
Refs == 1..MaxRequests
BridgeVersions == {"part_004", "part_005"}
NoRequest == "none"
NoChannel == "none"

Request(ref) == [type |-> "Request", ref |-> ref]
Cancel(ref) == [type |-> "Cancel", ref |-> ref]

\* the refs in use
Requested == {ref \in Refs : kindOf[ref] # NoRequest}

BridgeInit ==
  /\ bridgeVersion \in BridgeVersions
  /\ kindOf = [ref \in Refs |-> NoRequest]
  /\ pendingRequests = {} /\ listening = {} /\ aborted = {} /\ activeChannels = {}
  /\ chan = [ref \in Refs |-> NoChannel]
  /\ owed = {} /\ outbox = <<>>
  /\ invoked = [ref \in Refs |-> 0]
  /\ routed = {}

BridgeIdle ==
  /\ bridgeVersion = "none"
  /\ kindOf = [ref \in Refs |-> NoRequest]
  /\ pendingRequests = {} /\ listening = {} /\ aborted = {} /\ activeChannels = {}
  /\ chan = [ref \in Refs |-> NoChannel]
  /\ owed = {} /\ outbox = <<>>
  /\ invoked = [ref \in Refs |-> 0]
  /\ routed = {}

\* request and open of part_004, initiateRequest of part_005: the request is
\* stored under a new ref, sent, and a listener is put on its abort signal
Initiate(ref, kind) ==
  /\ kindOf[ref] = NoRequest
  /\ \A earlier \in 1..(ref - 1) : kindOf[earlier] # NoRequest
  /\ kindOf' = [kindOf EXCEPT ![ref] = kind]
  /\ pendingRequests' = pendingRequests \cup {ref}
  /\ outbox' = Append(outbox, Request(ref))
  /\ listening' = listening \cup {ref}
  /\ owed' = owed \cup {ref}
  /\ UNCHANGED <<bridgeVersion, aborted, activeChannels, chan, invoked, routed, notBridgeVars>>

\* ServerBridge.request, ServerBridge.initiateRequest
CallRequest ==
  \E ref \in Refs :
    /\ bridgeVersion \in BridgeVersions
    /\ Initiate(ref, "transient")

\* ServerBridge.open
CallOpen ==
  \E ref \in Refs :
    /\ bridgeVersion = "part_004"
    /\ Initiate(ref, "persistent")

\* the request's listener of the abort signal: _abortRequest of part_004,
\* the arrow function of initiateRequest of part_005
AbortListenerCancels(ref) ==
  IF bridgeVersion = "part_004"
  THEN ref \in listening /\ (ref \in pendingRequests \/ ref \in activeChannels)
  ELSE ref \in listening

\* PersistentChannel._onAbort, run when the channel's own controller aborts
OnAbortCancels(ref, active) == chan[ref] = "open" /\ ref \in active

\* Cancel messages for ref, as many as n
Cancels(ref, n) == [i \in 1..n |-> Cancel(ref)]
Count(b) == IF b THEN 1 ELSE 0

\* the abort signal of a request fires: the request's listener runs, then
\* the listener of the channel's child controller
SignalFires ==
  \E ref \in Requested \ aborted :
    /\ aborted' = aborted \cup {ref}
    /\ listening' = IF bridgeVersion = "part_004" THEN listening \ {ref} ELSE listening
    /\ pendingRequests' =
         IF bridgeVersion = "part_004" /\ ref \in listening
         THEN pendingRequests \ {ref} ELSE pendingRequests
    /\ activeChannels' =
         IF \/ ref \in listening /\ ref \notin pendingRequests
            \/ chan[ref] = "open"
         THEN activeChannels \ {ref} ELSE activeChannels
    /\ outbox' = outbox
                 \o Cancels(ref, Count(AbortListenerCancels(ref)))
                 \o Cancels(ref, Count(~AbortListenerCancels(ref)
                                       /\ OnAbortCancels(ref, activeChannels)))
    /\ chan' = [chan EXCEPT ![ref] = IF @ = "open" THEN "closed" ELSE @]
    /\ UNCHANGED <<bridgeVersion, kindOf, owed, invoked, routed, notBridgeVars>>

\* ServerBridge._receiveResponse of part_004
ReceiveResponse004(ref, persistent) ==
  /\ pendingRequests' = pendingRequests \ {ref}
  /\ IF ref \notin pendingRequests
     THEN UNCHANGED <<listening, outbox, invoked, chan>>
     ELSE /\ listening' = listening \ {ref}
          /\ IF kindOf[ref] = "transient"
             THEN /\ outbox' = outbox \o Cancels(ref, Count(persistent))
                  /\ invoked' = [invoked EXCEPT ![ref] = @ + 1]
                  /\ UNCHANGED chan
             ELSE IF ~persistent
                  THEN UNCHANGED <<outbox, invoked, chan>>
                  ELSE /\ chan' = [chan EXCEPT ![ref] = "open"]
                       /\ invoked' = [invoked EXCEPT ![ref] = @ + 1]
                       /\ UNCHANGED outbox

\* ServerBridge.receiveResponse of part_005
ReceiveResponse005(ref) ==
  /\ pendingRequests' = pendingRequests \ {ref}
  /\ invoked' = [invoked EXCEPT ![ref] = IF ref \in pendingRequests THEN @ + 1 ELSE @]
  /\ UNCHANGED <<listening, outbox, chan>>

\* the server's response to a request arrives
ReceiveResponse ==
  \E ref \in owed, persistent \in BOOLEAN :
    /\ owed' = owed \ {ref}
    /\ IF bridgeVersion = "part_004"
       THEN ReceiveResponse004(ref, persistent)
       ELSE ReceiveResponse005(ref)
    /\ UNCHANGED <<bridgeVersion, kindOf, aborted, activeChannels, routed, notBridgeVars>>

\* PersistentChannel.setRouter, called by the holder of a channel
CallSetRouter ==
  \E ref \in Refs :
    /\ chan[ref] = "open"
    /\ activeChannels' = activeChannels \cup {ref}
    /\ UNCHANGED <<bridgeVersion, kindOf, pendingRequests, listening, aborted, chan, owed,
                   outbox, invoked, routed, notBridgeVars>>

\* PersistentChannel.close: the channel's controller aborts and _onAbort runs
CallClose ==
  \E ref \in Refs :
    /\ chan[ref] = "open"
    /\ chan' = [chan EXCEPT ![ref] = "closed"]
    /\ activeChannels' = activeChannels \ {ref}
    /\ outbox' = outbox \o Cancels(ref, Count(OnAbortCancels(ref, activeChannels)))
    /\ UNCHANGED <<bridgeVersion, kindOf, pendingRequests, listening, aborted, owed, invoked,
                   routed, notBridgeVars>>

\* ServerBridge._receiveUpdate: an update for a channel with a router
ReceiveUpdate ==
  \E ref \in activeChannels :
    /\ ref \notin routed
    /\ routed' = routed \cup {ref}
    /\ UNCHANGED <<bridgeVersion, kindOf, pendingRequests, listening, aborted,
                   activeChannels, chan, owed, outbox, invoked, notBridgeVars>>

BridgeNext ==
  \/ CallRequest \/ CallOpen \/ SignalFires \/ ReceiveResponse
  \/ CallSetRouter \/ CallClose \/ ReceiveUpdate

(***************************************************************************)
(* OnDemandStaticRuleSet and the cleanup of StyleRule.  A context belongs  *)
(* to one stylesheet; a StyleRule is made per insertion into a stylesheet. *)
(***************************************************************************)
\* most require calls made
MaxRequires == 3
Sheets == {1, 2}
StyleContexts == {1, 2, 3}
\* context.stylesheet
SheetOf(c) == IF c = 3 THEN 2 ELSE 1
RuleIds == 1..MaxRequires
NoRule == [sheet |-> 0, contexts |-> {}, scheduled |-> FALSE, inserted |-> FALSE]

\* the cleanup of StyleRule: the static fields, with the rules and the refs
\* that its operations change
Cleanup(rs, q, flag, armed, rf) ==
  [rules |-> rs, cleanupQueue |-> q, isCleanupQueued |-> flag, timeoutPending |-> armed,
   refs |-> rf]

\* StyleRule.addToCleanupQueue
AddToCleanupQueue(k, r) ==
  [k EXCEPT !.cleanupQueue = @ \cup {r},
            !.isCleanupQueued = TRUE,
            !.timeoutPending = IF k.isCleanupQueued THEN @ ELSE TRUE]

\* StyleRule.removeFromCleanupQueue
RemoveFromCleanupQueue(k, r) ==
  IF r \in k.cleanupQueue /\ k.cleanupQueue \ {r} = {}
  THEN [k EXCEPT !.cleanupQueue = {}, !.timeoutPending = FALSE, !.isCleanupQueued = FALSE]
  ELSE [k EXCEPT !.cleanupQueue = @ \ {r}]

\* StyleRule.scheduleForDisposal
ScheduleForDisposal(k, r) ==
  IF k.rules[r].scheduled THEN k
  ELSE AddToCleanupQueue([k EXCEPT !.rules[r].scheduled = TRUE], r)

\* StyleRule.cancelScheduledDisposal
CancelScheduledDisposal(k, r) ==
  IF ~k.rules[r].scheduled THEN k
  ELSE RemoveFromCleanupQueue([k EXCEPT !.rules[r].scheduled = FALSE], r)

\* StyleRule[Symbol.dispose] of every rule of the queue q: the rule is deleted
\* from its sheet and the callback of onDisposed deletes the sheet's ref
DisposeRules(k, q) ==
  [k EXCEPT !.rules = [r \in RuleIds |->
                         IF r \in q THEN [k.rules[r] EXCEPT !.inserted = FALSE]
                         ELSE k.rules[r]],
            !.refs = [ss \in Sheets |->
                        IF \E r \in q : k.rules[r].sheet = ss THEN 0 ELSE k.refs[ss]]]

\* StyleRule.runCleanupOperation
RunCleanup(k) ==
  [DisposeRules(k, k.cleanupQueue) EXCEPT
     !.cleanupQueue = {}, !.isCleanupQueued = FALSE, !.timeoutPending = FALSE]

CleanupNow == Cleanup(rules, cleanupQueue, isCleanupQueued, timeoutPending, refs)
CleanupBecomes(k) ==
  /\ rules' = k.rules /\ cleanupQueue' = k.cleanupQueue
  /\ isCleanupQueued' = k.isCleanupQueued /\ timeoutPending' = k.timeoutPending
  /\ refs' = k.refs

SheetInit ==
  /\ refs = [ss \in Sheets |-> 0]
  /\ rules = [r \in RuleIds |-> NoRule]
  /\ rulesMade = 0
  /\ requires = <<>>
  /\ cleanupQueue = {} /\ isCleanupQueued = FALSE /\ timeoutPending = FALSE
SheetIdle == SheetInit

\* the ref's contexts gain c
AddContext(k, r, c) == [k EXCEPT !.rules[r].contexts = @ \cup {c}]

\* OnDemandStaticRuleSet.require(context), the stylesheet having no ref: a
\* rule is inserted and a ref made for it
RequireFirst(c) ==
  /\ refs[SheetOf(c)] = 0
  /\ rulesMade' = rulesMade + 1
  /\ CleanupBecomes(AddContext(
       [CleanupNow EXCEPT
          !.rules[rulesMade + 1] =
            [sheet |-> SheetOf(c), contexts |-> {}, scheduled |-> FALSE, inserted |-> TRUE],
          !.refs[SheetOf(c)] = rulesMade + 1],
       rulesMade + 1, c))
  /\ requires' = Append(requires, [rule |-> rulesMade + 1, context |-> c, released |-> FALSE])

\* OnDemandStaticRuleSet.require(context), the stylesheet having a ref
RequireAgain(c) ==
  /\ refs[SheetOf(c)] # 0
  /\ UNCHANGED rulesMade
  /\ CleanupBecomes(AddContext(CancelScheduledDisposal(CleanupNow, refs[SheetOf(c)]),
                               refs[SheetOf(c)], c))
  /\ requires' = Append(requires, [rule |-> refs[SheetOf(c)], context |-> c,
                                    released |-> FALSE])

\* OnDemandStaticRuleSet.require(context)
CallRequire ==
  \E c \in StyleContexts :
    /\ Len(requires) < MaxRequires
    /\ (RequireFirst(c) \/ RequireAgain(c))
    /\ UNCHANGED notSheetVars

\* the function a require call returned is called
CallRelease ==
  \E i \in 1..Len(requires) :
    /\ ~requires[i].released
    /\ requires' = [requires EXCEPT ![i].released = TRUE]
    /\ CleanupBecomes(
         IF requires[i].context \notin rules[requires[i].rule].contexts
         THEN CleanupNow
         ELSE IF rules[requires[i].rule].contexts = {requires[i].context}
              THEN ScheduleForDisposal(
                     [CleanupNow EXCEPT !.rules[requires[i].rule].contexts = {}],
                     requires[i].rule)
              ELSE [CleanupNow EXCEPT
                      !.rules[requires[i].rule].contexts = @ \ {requires[i].context}])
    /\ UNCHANGED <<rulesMade, notSheetVars>>

\* the timer of the cleanup fires
CleanupTimerRuns ==
  /\ timeoutPending
  /\ CleanupBecomes(RunCleanup(CleanupNow))
  /\ UNCHANGED <<rulesMade, requires, notSheetVars>>

SheetNext == CallRequire \/ CallRelease \/ CleanupTimerRuns

(***************************************************************************)
(* DOMContext.renderEach.  A branch is the range of nodes its component's  *)
(* view has; the context's insertion location is in a parent element with  *)
(* two children of its own.                                                *)
(***************************************************************************)
\* most branches of one renderEach call
MaxBranches == 3
BranchSeqs == UNION {[1..n -> LeafSpecs] : n \in 0..MaxBranches}
\* the kinds of insertion location of the context: those at which a range of
\* several nodes is attached in its own order
EachLocationKinds == {"element", "next", "both"}

\* the state of the loop of renderEach: the parent's children, tailingRange,
\* whether branchContext is bound to the location before tailingRange, and
\* the views pushed
EachState(ch, tailingRange, rebound, pushed) ==
  [dom |-> ch, tailingRange |-> tailingRange, rebound |-> rebound, views |-> pushed]

\* branchContext.domInsertionLocation as an append sees it: the context's own
\* location, or the props whose nextOuterSibling is
\* () => tailingRange.firstActiveNode
BranchLocation(st, location) ==
  IF st.rebound THEN PointerFromProps(UNDEFINED, FirstActiveNode(st.tailingRange).node)
  ELSE location

\* DOMContext.render of a branch: the view's nodes are attached to the
\* context's insertion location
RenderBranch(st, location, branch) == AttachTo(branch, st.dom, BranchLocation(st, location))

RECURSIVE RenderEachLoop(_, _, _, _)
\* the loop of renderEach over the branches, from branch i (0-based) down
RenderEachLoop(st, location, bs, i) ==
  IF i < 0 THEN st
  ELSE IF i > 0
       THEN RenderEachLoop(
              EachState(RenderBranch(st, location, bs[i + 1]).dom,
                        ConcatAll(<<RenderBranch(st, location, bs[i + 1]).range,
                                    st.tailingRange>>),
                        TRUE,
                        <<RenderBranch(st, location, bs[i + 1]).range>> \o st.views),
              location, bs, i - 1)
       ELSE EachState(RenderBranch(st, location, bs[i + 1]).dom, st.tailingRange, st.rebound,
                      <<RenderBranch(st, location, bs[i + 1]).range>> \o st.views)

\* DOMContext.renderEach(branches)
RenderEach(ch, location, bs) ==
  RenderEachLoop(EachState(ch, Empty, FALSE, <<>>), location, bs, Len(bs) - 1)

EachInit ==
  /\ branches \in {[i \in 1..Len(specs) |-> Leaf(specs[i], i)] : specs \in BranchSeqs}
  /\ asRecord \in BOOLEAN
  /\ insertionLocation \in EachLocationKinds
  /\ eachDom = <<OuterPrev, OuterNext>>
  /\ views = <<>>
  /\ eachCalled = FALSE

EachIdle ==
  /\ branches = <<>>
  /\ asRecord = FALSE
  /\ insertionLocation = "none"
  /\ eachDom = <<>>
  /\ views = <<>>
  /\ eachCalled = FALSE

\* context.renderEach(branches): the array and the record are rendered by
\* the same loop, the record in the order of Object.keys
CallRenderEach ==
  /\ ~eachCalled
  /\ eachCalled' = TRUE
  /\ eachDom' = RenderEach(eachDom, LocationOf(insertionLocation), branches).dom
  /\ views' = RenderEach(eachDom, LocationOf(insertionLocation), branches).views
  /\ UNCHANGED <<branches, asRecord, insertionLocation, notEachVars>>

EachNext == CallRenderEach

\* the later sub-models, none begun
LaterIdle == QualifyIdle /\ SocketIdle /\ BridgeIdle /\ SheetIdle /\ EachIdle
\* the first six sub-models, none begun
EarlierIdle ==
  /\ dom = <<>>
  /\ ListIdle /\ RangeIdle /\ PointerIdle /\ BindingIdle /\ ConnectIdle /\ QueryIdle

vars == <<earlierVars, laterVars>>

InitList ==
  /\ ListInit /\ RangeIdle /\ PointerIdle /\ BindingIdle /\ ConnectIdle /\ QueryIdle
  /\ LaterIdle
SpecList == InitList /\ [][ListNext]_vars
InitRange ==
  /\ RangeInit /\ ListIdle /\ PointerIdle /\ BindingIdle /\ ConnectIdle /\ QueryIdle
  /\ LaterIdle
SpecRange == InitRange /\ [][RangeNext]_vars
InitBinding ==
  /\ BindingInit /\ dom = <<>>
  /\ ListIdle /\ RangeIdle /\ PointerIdle /\ ConnectIdle /\ QueryIdle
  /\ LaterIdle
SpecBinding == InitBinding /\ [][BindingNext]_vars
InitPointer ==
  /\ PointerInit /\ ListIdle /\ RangeIdle /\ BindingIdle /\ ConnectIdle /\ QueryIdle
  /\ LaterIdle
SpecPointer == InitPointer /\ [][PointerNext]_vars
InitConnect ==
  /\ ConnectInit /\ ListIdle /\ RangeIdle /\ PointerIdle /\ BindingIdle /\ QueryIdle
  /\ LaterIdle
SpecConnect == InitConnect /\ [][ConnectNext]_vars
InitQuery ==
  /\ QueryInit
  /\ ListIdle /\ RangeIdle /\ PointerIdle /\ BindingIdle /\ ConnectIdle
  /\ LaterIdle
SpecQuery == InitQuery /\ [][QueryNext]_vars
InitQualify ==
  /\ QualifyInit
  /\ EarlierIdle
  /\ SocketIdle /\ BridgeIdle /\ SheetIdle /\ EachIdle
SpecQualify == InitQualify /\ [][QualifyNext]_vars
InitSocket ==
  /\ SocketInit
  /\ EarlierIdle
  /\ QualifyIdle /\ BridgeIdle /\ SheetIdle /\ EachIdle
SpecSocket == InitSocket /\ [][SocketNext]_vars
\* the host's timers fire: a pending reconnect timer runs in the end
SpecSocketLive == InitSocket /\ [][SocketNext]_vars /\ WF_vars(TimerFires)
InitBridge ==
  /\ BridgeInit
  /\ EarlierIdle
  /\ QualifyIdle /\ SocketIdle /\ SheetIdle /\ EachIdle
SpecBridge == InitBridge /\ [][BridgeNext]_vars
InitSheet ==
  /\ SheetInit
  /\ EarlierIdle
  /\ QualifyIdle /\ SocketIdle /\ BridgeIdle /\ EachIdle
SpecSheet == InitSheet /\ [][SheetNext]_vars
InitEach ==
  /\ EachInit
  /\ EarlierIdle
  /\ QualifyIdle /\ SocketIdle /\ BridgeIdle /\ SheetIdle
SpecEach == InitEach /\ [][EachNext]_vars

(***************************************************************************)
(* Claims about the dynamic list reconciler.                               *)
(***************************************************************************)
RECURSIVE SegmentNodes(_)
\* the nodes of a list of segments, in list order
SegmentNodes(segs) ==
  IF segs = <<>> THEN <<>> ELSE RangeNodes(Head(segs)) \o SegmentNodes(Tail(segs))
\* the children of the parent that are nodes of the listed segments, in sibling order
ListedNodesInDom(s) ==
  SelectSeq(s.dom, LAMBDA n : InSeq(n, SegmentNodes(s.segments)))
\* the children of the parent that are nodes of ranges, in sibling order
RangeNodesInDom(s) == SelectSeq(s.dom, LAMBDA n : n \in SolidRanges)

\* C1: after any sequence of push, pop, unshift, shift, splice and set events
\* the sibling order of the segments' nodes is the order of the segment list.
C1_DomOrderIsSegmentOrder ==
  ListedNodesInDom(ListState) = SegmentNodes(segments)

\* C2: starting empty, push(A,B,C) then splice(1,1,D,E) leaves the DOM order
\* [A,D,E,C]; then shift() leaves [D,E,C]; then set(1,F) leaves [D,F,C].
C2_SpliceScenario ==
  (delivered = 1 /\ lastKind = "push" /\ Len(segments) = 3
     /\ \A i \in 1..3 : segments[i] \in SolidRanges) =>
    LET A == segments[1]
        B == segments[2]
        C == segments[3]
        DE == FreshRanges(ListState, <<"solid", "solid">>)
        D == DE[1]
        E == DE[2]
        s2 == Step(ListState, Event("splice", 1, 1, DE))
        s3 == Step(s2, Event("shift", 0, 0, <<>>))
        F == FreshRanges(s3, <<"solid">>)[1]
        s4 == Step(s3, Event("set", 1, 0, <<F>>))
    IN  /\ RangeNodesInDom(ListState) = <<A, B, C>>
        /\ RangeNodesInDom(s2) = <<A, D, E, C>>
        /\ RangeNodesInDom(s3) = <<D, E, C>>
        /\ RangeNodesInDom(s4) = <<D, F, C>>

\* the segment at place i of the list, null beyond its ends
SegmentAt(segs, i) == IF i \in 1..Len(segs) THEN segs[i] ELSE NULL

\* C13: after a pop, a shift or a splice the links of the surviving segments
\* skip the removed ones: each segment's next is the segment after it in the
\* list and its previous the one before it, null at the two ends.
C13_LinksSkipRemovedSegments ==
  (lastKind \in {"pop", "shift", "splice"} /\ ~threw) =>
    \A i \in 1..Len(segments) :
      /\ nextOf[segments[i]] = SegmentAt(segments, i + 1)
      /\ prevOf[segments[i]] = SegmentAt(segments, i - 1)

\* node a comes before node b among the children of the parent
Precedes(ch, a, b) == InSeq(a, ch) /\ InSeq(b, ch) /\ IndexOf(a, ch) < IndexOf(b, ch)

\* C14: a segment with no non-empty segment on a side is anchored on that
\* side by the controller's own location: the nodes of every segment are
\* after the location's previous outer sibling and before its next outer
\* sibling, also when the location has only a previous-sibling anchor.
C14_SegmentsWithinControllerLocation ==
  \A i \in 1..Len(SegmentNodes(segments)) :
    LET node == SegmentNodes(segments)[i]
    IN  InSeq(node, dom) =>
          /\ locationKind \in {"previous", "both"} => Precedes(dom, OuterPrev, node)
          /\ locationKind \in {"next", "both"} => Precedes(dom, node, OuterNext)

\* C14 at work: the location has only a previous-sibling anchor, and a
\* non-empty segment was put in front of a list that holds only an empty
\* segment, so that no non-empty segment is on either side of it
C14_Witness ==
  /\ locationKind = "previous" /\ lastKind = "unshift" /\ ~threw
  /\ Len(segments) = 2
  /\ segments[1] \in SolidRanges /\ segments[2] \in EmptyRanges
  /\ Precedes(dom, OuterPrev, segments[1])

\* the places after the first whose segment wraps a non-empty range
SolidAfterFirst(segs) == {j \in 2..Len(segs) : segs[j] \in SolidRanges}

\* a segment put in front of the list went right before the node of the
\* nearest following non-empty segment
WalkedPastEmptySegments ==
  (lastKind = "unshift" /\ ~threw /\ segments[1] \in SolidRanges
     /\ SolidAfterFirst(segments) # {}) =>
    LET j == CHOOSE k \in SolidAfterFirst(segments) :
               \A l \in SolidAfterFirst(segments) : k <= l
    IN  NextSibling(dom, segments[1]) = segments[j]

\* C15: a segment attached next to segments that wrap empty ranges walks the
\* chain past them: its nodes go right before the first active node of the
\* nearest following non-empty segment, and the anchor it resolves is always
\* a child of the parent, also after earlier removals (an anchor that is not
\* a child makes the insertion throw).
C15_AnchorsWalkPastEmptySegments ==
  /\ ~threw
  /\ WalkedPastEmptySegments

(***************************************************************************)
(* Claims about aspect binding.                                            *)
(***************************************************************************)
\* the element carries what it carried in b, written by the same sources
SameWrites(b, c) == c.value = b.value /\ c.writer = b.writer

\* C3: when a name bound to streaming source S1 is rebound to another
\* streaming source S2, by a second set call or by a change event of the
\* reactive mapping, no later emission of S1 writes the name.
C3_RebindUnsubscribes ==
  \A name \in Names : \A s1 \in Streams : \A s2 \in Streams \ {s1} :
    \A v \in Emissions \ {binding.current[s1]} :
      (~binding.aborted /\ binding.bound[name] = s1) =>
        /\ LET b2 == SetEntry(binding, name, s2)
           IN  SameWrites(b2, Emit(b2, s1, v))
        /\ (binding.subscribed /\ binding.entries[name] = s1) =>
             LET b2 == SetSourceEntry([binding EXCEPT !.entries[name] = s2], name, s2)
             IN  SameWrites(b2, Emit(b2, s1, v))

\* the live subscriptions and the pending asyncs that would write the name
LiveHandles(b, name) ==
  Cardinality({i \in 1..Len(b.subs) : b.subs[i].name = name})
    + Cardinality({i \in 1..Len(b.pending) :
                     b.pending[i].name = name /\ ~b.pending[i].cancelled})

\* C4: a name has at most one live subscription or pending async at a time;
\* when a name bound to a pending async is superseded by a newer value, the
\* async's later resolution does not write the name.
C4_OneHandlePerName ==
  \A name \in Names :
    ~binding.aborted =>
      /\ LiveHandles(binding, name) <= 1
      /\ \A a \in Asyncs : \A newer \in Literals : \A result \in Literals :
           (binding.bound[name] = a /\ a \notin binding.resolved) =>
             LET b2 == SetEntry(binding, name, newer)
             IN  SameWrites(b2, ResolveAsync(b2, a, result))

\* C5: once the scope is aborted, no continuation of an async and no
\* emission of a streaming source writes to the element.
C5_NoWriteAfterAbort ==
  [][binding.aborted => SameWrites(binding, binding')]_vars

\* the form in which the engine's literal write leaves an emitted number
Carried(b, text) == IF b.engine = "Properties" THEN Number(text) ELSE String(Number(text))

\* C27: while a streaming source is what a name is bound to in a scope that
\* is not aborted, right after the echo of the binding and right after each
\* emission of the source the element carries the source's latest value, in
\* string form for attributes, styles and dataset entries.
C27_StreamValueReachesElement ==
  [][\A name \in Names : \A s \in Streams :
       (/\ ~binding'.aborted /\ binding'.bound[name] = s
        /\ binding.bound[name] # s \/ binding'.current[s] # binding.current[s]) =>
         binding'.value[name] = Carried(binding', binding'.current[s])]_vars

\* C28: when the reactive mapping source deletes a name, the name's handle
\* is cancelled and the aspect is removed from the element; afterwards
\* neither an emission of the streaming source the name had nor the
\* resolution of the async it had sets the aspect again.
C28_DeleteCancelsAndRemoves ==
  [][\A name \in Names :
       (/\ binding.subscribed /\ ~binding.aborted
        /\ binding.entries[name] # NONE /\ binding'.entries[name] = NONE) =>
         /\ binding'.value[name] = Absent
         /\ name \notin binding'.handles
         /\ binding.entries[name] \in Streams =>
              \A v \in Emissions :
                Emit(binding', binding.entries[name], v).value[name] = Absent
         /\ (binding.entries[name] \in Asyncs
               /\ binding.entries[name] \notin binding.resolved) =>
              \A result \in Literals \cup Streams :
                ResolveAsync(binding', binding.entries[name], result).value[name] = Absent]_vars

\* C29: a property bound to a literal that is not a string (the number 5)
\* holds the native value, not its string form, whether the binding was made
\* by Properties of html-template.ts or by the generic engine with the
\* driver of Properties.
C29_PropertyKeepsNativeValue ==
  \A name \in Names :
    (/\ binding.engine \in {"Properties", "Aspects"}
     /\ binding.bound[name] \in Literals /\ binding.writer[name] = "owner") =>
      binding.value[name] = Number(binding.bound[name])

(***************************************************************************)
(* Claims about DOMNodeRange.                                              *)
(***************************************************************************)
RECURSIVE AllNodes(_), AllNodesOf(_)
\* the nodes of a range, in order
AllNodes(r) ==
  CASE r.kind = "RenderedRange" -> r.template
    [] r.kind = "ConcatAll" -> AllNodesOf(r.ranges)
    [] OTHER -> r.nodes
AllNodesOf(ranges) ==
  IF ranges = <<>> THEN <<>> ELSE AllNodes(Head(ranges)) \o AllNodesOf(Tail(ranges))

\* the children of the parent when the nodes are one run at the location
RunAt(kind, nodes) ==
  IF kind = "element" THEN <<OuterPrev, OuterNext>> \o nodes
  ELSE <<OuterPrev>> \o nodes \o <<OuterNext>>

\* C6: after a ConcatAll range is attached at a location, the nodes of its
\* sub-ranges are children of the location's parent, in sub-range order, as
\* one run at the location (right before the next outer sibling if it has
\* one), whichever sub-ranges are empty.
C6_ConcatAllAttachedAsOneRun ==
  (called = "attachTo" /\ nodeRange.kind = "ConcatAll") =>
    dom = RunAt(attachedAt, AllNodes(nodeRange))

\* the sub-ranges whose first / last active node is not null
WithFirst(r) == {i \in 1..Len(r.ranges) : FirstActiveNode(r.ranges[i]).node # NULL}
WithLast(r) == {i \in 1..Len(r.ranges) : LastActiveNode(r.ranges[i]).node # NULL}
Least(S) == CHOOSE i \in S : \A j \in S : i <= j
Greatest(S) == CHOOSE i \in S : \A j \in S : i >= j

\* C7: lastActiveNode of a ConcatAll of immutable sub-ranges is the
\* lastActiveNode of the last sub-range that has one, and null iff no
\* sub-range has one.
C7_ConcatAllLastActiveNode ==
  (called = "lastActiveNode" /\ nodeRange.kind = "ConcatAll") =>
    IF WithLast(nodeRange) = {} THEN returned = NULL
    ELSE returned = LastActiveNode(nodeRange.ranges[Greatest(WithLast(nodeRange))]).node

\* C8: firstActiveNode of a ConcatAll of immutable sub-ranges is the
\* firstActiveNode of the first sub-range that has one, and null iff no
\* sub-range has one.
C8_ConcatAllFirstActiveNode ==
  (called = "firstActiveNode" /\ nodeRange.kind = "ConcatAll") =>
    IF WithFirst(nodeRange) = {} THEN returned = NULL
    ELSE /\ returned # NULL
         /\ returned = FirstActiveNode(nodeRange.ranges[Least(WithFirst(nodeRange))]).node

\* C8 at work: the first sub-range is empty and a later one is not
C8_Witness ==
  /\ called = "firstActiveNode" /\ nodeRange.kind = "ConcatAll"
  /\ Len(nodeRange.ranges) >= 2
  /\ 1 \notin WithFirst(nodeRange)
  /\ returned # NULL

\* C9: after attachTo(L) and then remove(), none of the range's nodes is a
\* child of the parent and attachedLocation is null.
C9_AttachRemoveRoundTrip ==
  (called = "remove" /\ before = "attachTo" /\ nodeRange.kind # "Empty") =>
    /\ \A i \in 1..Len(AllNodes(nodeRange)) : ~InSeq(AllNodes(nodeRange)[i], dom)
    /\ ~IsAttached(nodeRange)

RECURSIVE RangesOf(_)
\* the range and all its sub-ranges
RangesOf(r) ==
  {r} \cup UNION {RangesOf(r.ranges[i]) : i \in 1..Len(r.ranges)}

\* C19: disposing a range twice has the effect of disposing it once: the
\* driver's dispose, and for a ConcatAll the dispose of each sub-range and of
\* the disposal target, runs at most once per range.
C19_DisposeIsIdempotent ==
  /\ \A r \in RangesOf(nodeRange) : r.driverDisposals <= 1 /\ r.targetDisposals <= 1
  /\ called = "dispose" =>
        \A r \in RangesOf(nodeRange) : r.disposed /\ r.driverDisposals = 1

\* C19 at work: a ConcatAll of two or more ranges has been disposed twice
C19_Witness ==
  /\ called = "dispose" /\ before = "dispose"
  /\ nodeRange.kind = "ConcatAll" /\ Len(nodeRange.ranges) >= 2
  /\ \A r \in RangesOf(nodeRange) : r.driverDisposals = 1

\* C20: iterating a range yields the nodes from firstActiveNode through
\* lastActiveNode in sibling order and stops at lastActiveNode; it yields no
\* sibling that is not a node of the range.
C20_IterationStaysInRange ==
  (called = "iterate" /\ before = "attachTo") =>
    LET first == FirstActiveNode(nodeRange).node
        last == LastActiveNode(nodeRange).node
    IN  /\ \A i \in 1..Len(yielded) : InSeq(yielded[i], AllNodes(nodeRange))
        /\ IF first = NULL THEN yielded = <<>>
           ELSE /\ InSeq(first, dom) /\ InSeq(last, dom)
                /\ yielded = SubSeq(dom, IndexOf(first, dom), IndexOf(last, dom))

(***************************************************************************)
(* Claims about DOMLocationPointer.                                        *)
(***************************************************************************)
\* C10: appendEach(nodes) leaves the nodes in the DOM in the order given,
\* under each of the three insertion strategies.
C10_AppendEachKeepsOrder ==
  SelectSeq(dom, LAMBDA n : InSeq(n, appended)) = appended

\* the pointer was built from props whose only anchor is a next-sibling function
OnlyNextGetter == ~props.element /\ props.isFunction /\ props.previous = UNDEFINED

\* C11: a pointer built from props with only a next-sibling getter inserts
\* every appended node right before the node the getter returns at that
\* append, however often the getter's answer has changed.
C11_AppendBeforeResolvedNext ==
  (OnlyNextGetter /\ Len(appended) = 1 /\ anchoredAt # NULL /\ anchoredAt # appended[1]) =>
    NextSibling(dom, appended[1]) = anchoredAt

\* C11 at work: a node was appended before a node that the getter did not
\* return when the pointer was built
C11_Witness ==
  /\ OnlyNextGetter /\ Len(appended) = 1
  /\ anchoredAt \notin {NULL, props.next, appended[1]}
  /\ NextSibling(dom, appended[1]) = anchoredAt

LiveCalls == {call \in Calls : subscribed[call] # NoCall
                                 /\ subscribed[call].signal \notin abortedSignals}
\* the live calls that observe the node
SubscribersOf(node) == {call \in LiveCalls : subscribed[call].node = node}

\* C16: a node has at most one backing source, and an observer observes the
\* node exactly while the node has a subscriber: it starts with the first
\* subscriber, stops when the last one unsubscribes, and starts again when a
\* subscriber arrives after that.
C16_ObservingWhileSubscribed ==
  \A node \in ObservedNodes :
    /\ Cardinality({i \in 1..Len(controllers) : controllers[i].node = node}) <= 1
    /\ observers[node] = IF SubscribersOf(node) = {} THEN 0 ELSE 1

\* C16 at work: a node is observed again after its observer had been stopped
C16_Witness ==
  \E node \in ObservedNodes :
    stopped[node] >= 1 /\ observers[node] = 1 /\ SubscribersOf(node) # {}

\* C17: once a subscriber's abort signal has fired the subscriber gets no
\* further notification, while the other subscribers of the node get every
\* later one.
C17_AbortUnsubscribes ==
  [][/\ \A call \in Calls \ LiveCalls : received'[call] = received[call]
     /\ records' # records =>
          \A call \in LiveCalls :
            subscribed[call].node \in lastTargets' => received'[call] > received[call]]_vars

\* C17 at work: two subscribers of a node got a notification; the signal of
\* one fired; the next notification about the node reached only the other
C17_Witness ==
  \E gone \in Calls \ LiveCalls : \E kept \in LiveCalls :
    /\ subscribed[gone] # NoCall
    /\ subscribed[gone].node = subscribed[kept].node
    /\ subscribed[kept].node \in lastTargets
    /\ received[gone] >= 1
    /\ received[kept] > received[gone]
    /\ kept \in lastNotified /\ gone \notin lastNotified

\* C18: a connection-change record about a node reaches every current
\* subscriber of that node and no subscriber of another node.
C18_RecordReachesSubscribersOfNode ==
  [][records' # records =>
       lastNotified' = {call \in LiveCalls : subscribed[call].node \in lastTargets'}]_vars

\* C18 at work: a record reached the two subscribers of one node and not the
\* subscriber of the other node
C18_Witness ==
  \E a \in LiveCalls : \E b \in LiveCalls \ {a} : \E other \in LiveCalls \ {a, b} :
    /\ records > 0
    /\ lastNotified = {a, b}
    /\ subscribed[other].node \notin lastTargets
    /\ received[a] >= 1 /\ received[b] >= 1 /\ received[other] = 0

(***************************************************************************)
(* Claims about the ends and the queries of DOMNodeRange.                  *)
(***************************************************************************)
\* the range with nothing cached in the DOMNodeRange object
Uncached(r) ==
  [r EXCEPT !.cachedFirst = UNDEFINED, !.cachedLast = UNDEFINED,
            !.cachedFirstElement = UNDEFINED, !.cachedLastElement = UNDEFINED,
            !.cachedFirstHTMLElement = UNDEFINED]

\* what a boundary getter gives when it reads the driver's current content
Current(name, r, ch) ==
  CASE name = "firstActiveNode" -> FirstActiveNode(Uncached(r)).node
    [] name = "lastActiveNode" -> LastActiveNode(Uncached(r)).node
    [] name = "firstActiveElement" -> FirstActiveElement(Uncached(r), ch).node
    [] name = "lastActiveElement" -> LastActiveElement(Uncached(r), ch).node
    [] name = "firstActiveHTMLElement" -> FirstActiveHTMLElement(Uncached(r), ch).node

BoundaryGetters ==
  {"firstActiveNode", "lastActiveNode", "firstActiveElement", "lastActiveElement",
   "firstActiveHTMLElement"}

\* C21: a mutable range never serves a cached boundary: what firstActiveNode,
\* lastActiveNode, firstActiveElement, lastActiveElement and
\* firstActiveHTMLElement return is what the driver's current content gives.
C21_MutableRangeNeverCached ==
  (~IsImmutable(queryRange) /\ queryCalled.name \in BoundaryGetters) =>
    queryResult.node = Current(queryCalled.name, queryRange, dom)

RequiredQueries ==
  {"firstActiveNodeRequired", "lastActiveNodeRequired", "firstActiveElementRequired",
   "firstActiveHTMLElementRequired", "querySelectorRequired"}

\* C22: on a range that has been disposed, a query that requires a node
\* (firstActiveNodeRequired, lastActiveNodeRequired, firstActiveElementRequired,
\* querySelectorRequired) fails with a NotFound error and returns no node.
C22_DisposedRangeQueriesFail ==
  (queryRange.kind \in {"FromStaticNodeArray", "RenderedRange"} /\ queryRange.disposed
     /\ queryCalled.name \in RequiredQueries) =>
    queryResult.kind = "NotFound"

\* C23: ConcatAll does not construct a range from immutable sub-ranges among
\* which a non-null lastActiveNode is found and no non-null firstActiveNode
\* (or the other way round): the construction throws.
C23_ConcatAllRejectsMismatch ==
  (queryRange.kind = "ConcatAll"
     /\ \A i \in 1..Len(queryRange.ranges) : IsImmutable(queryRange.ranges[i])) =>
    ((\E i \in 1..Len(queryRange.ranges) :
        DriverFirstActiveNode(queryRange.ranges[i]).node # NULL)
       <=> (\E i \in 1..Len(queryRange.ranges) :
              DriverLastActiveNode(queryRange.ranges[i]).node # NULL))

\* the range is of a built-in kind and not disposed, and its nodes stand in
\* the order of the range between the outer siblings
BuiltInAndLive ==
  /\ queryRange.kind \in {"FromStaticNodeArray", "RenderedRange"} /\ Walkable
  /\ dom = <<OuterPrev>> \o AllNodes(queryRange) \o <<OuterNext>>
\* whether the range holds what the required query asks for
Holds(query, r, ids) ==
  \E k \in 1..Len(AllNodes(r)) :
    LET n == AllNodes(r)[k]
    IN  CASE query.name \in {"firstActiveNodeRequired", "lastActiveNodeRequired"} -> TRUE
          [] query.name = "firstActiveElementRequired" -> IsElement(n)
          [] query.name = "firstActiveHTMLElementRequired" -> InstanceOf(n, "HTMLElement")
          [] query.name = "querySelectorRequired" ->
               IsElement(n) /\ MatchAt(n, query.selector, ids) # NULL

\* C24: in every reachable state of a range built from the built-in drivers
\* (Empty, FromStaticNode, FromStaticNodeArray, template-rendered, ConcatAll
\* of those), and of each of its sub-ranges, firstActiveNode is null iff
\* lastActiveNode is null.
C24_EndsNullTogether ==
  \A r \in RangesOf(nodeRange) :
    (FirstActiveNode(r).node = NULL) <=> (LastActiveNode(r).node = NULL)

\* C24 at work: a ConcatAll of an empty and a non-empty sub-range has been
\* attached and both of its ends have been read, neither being null
C24_Witness ==
  /\ nodeRange.kind = "ConcatAll" /\ IsAttached(nodeRange)
  /\ \E i \in 1..Len(nodeRange.ranges) : AllNodes(nodeRange.ranges[i]) = <<>>
  /\ before = "firstActiveNode" /\ called = "lastActiveNode"
  /\ returned # NULL /\ FirstActiveNode(nodeRange).node # NULL

\* C25: a required query never returns null, and throws when the range holds
\* nothing of what it asks for; the error of querySelectorRequired(selector)
\* carries the selector text.
C25_RequiredQueriesThrow ==
  (BuiltInAndLive /\ queryCalled.name \in RequiredQueries) =>
    /\ queryResult.kind = "returned" => queryResult.node # NULL
    /\ ~Holds(queryCalled, queryRange, hasId) =>
         /\ queryResult.kind = "NotFound"
         /\ queryCalled.name = "querySelectorRequired" =>
              queryResult.message = queryCalled.selector

\* the first match for the selector among the elements of the range and
\* their subtrees, or null
FirstMatch(r, selector, ids) ==
  LET at == {k \in 1..Len(AllNodes(r)) :
               IsElement(AllNodes(r)[k]) /\ MatchAt(AllNodes(r)[k], selector, ids) # NULL}
  IN  IF at = {} THEN NULL
      ELSE MatchAt(AllNodes(r)[CHOOSE k \in at : \A j \in at : k <= j], selector, ids)

\* C26: querySelector(selector, as) returns no element that is not an
\* instance of as, and throws a TypeMismatch error when the first match for
\* the selector, an element of the range or a descendant of one, is not an
\* instance of as.
C26_TypeMismatchOnWrongType ==
  (BuiltInAndLive /\ queryCalled.name = "querySelector" /\ queryCalled.as # "undefined") =>
    /\ (queryResult.kind = "returned" /\ queryResult.node # NULL) =>
         InstanceOf(queryResult.node, queryCalled.as)
    /\ LET first == FirstMatch(queryRange, queryCalled.selector, hasId)
       IN  (first # NULL /\ ~InstanceOf(first, queryCalled.as)) =>
             queryResult.kind = "TypeMismatch"

\* C30: the first extractById of an id returns the element with its id
\* attribute removed, and every later extractById of the id on the range
\* returns that same element.
C30_ExtractByIdIsIdempotent ==
  [][queryCalled'.name = "extractById" =>
       IF idcache # UNDEFINED
       THEN queryResult' = Returned(idcache) /\ idcache' = idcache /\ hasId' = hasId
       ELSE queryResult'.kind = "returned" =>
              /\ idcache' = queryResult'.node
              /\ queryResult'.node \in hasId /\ hasId' = hasId \ {queryResult'.node}]_vars

\* C30 at work: an extraction that asks for an SVGElement has returned the
\* HTMLElement an earlier extraction found, whose id attribute is gone
C30_Witness ==
  /\ queryCalled = QueryWith("extractById", "#i", "SVGElement")
  /\ queryResult = Returned(idcache)
  /\ idcache = aSpan /\ aSpan \notin hasId

(***************************************************************************)
(* Claims about qualifyAttributeName.                                      *)
(***************************************************************************)
KnownPrefixes == {"svg", "xlink", "xml", "xmlns"}
NamespaceOf(prefix) ==
  CASE prefix = "svg" -> "http://www.w3.org/2000/svg"
    [] prefix = "xlink" -> "http://www.w3.org/1999/xlink"
    [] prefix = "xml" -> "http://www.w3.org/XML/1998/namespace"
    [] prefix = "xmlns" -> "http://www.w3.org/2000/xmlns/"

\* C31: qualifyAttributeName maps a name that is svg, xlink, xml or xmlns
\* followed by a colon and a local name to the namespace URI of that prefix
\* and the local name after the first colon, and every other name (no colon,
\* an unknown prefix) to no namespace and the name unchanged.
C31_QualifyAttributeName ==
  qname # NotQualified =>
    /\ \A prefix \in KnownPrefixes : \A local \in NamesUpTo(MaxNameLen) :
         attrName = <<prefix, Colon>> \o local =>
           qname = [namespace |-> NamespaceOf(prefix), name |-> local]
    /\ (\A prefix \in KnownPrefixes : Len(attrName) < 2
          \/ SubSeq(attrName, 1, 2) # <<prefix, Colon>>) =>
         qname = [namespace |-> NoNamespace, name |-> attrName]

\* C31 at work: "xlink:href" has been qualified
C31_Witness ==
  /\ attrName = <<"xlink", Colon, "href">>
  /\ qname = [namespace |-> "http://www.w3.org/1999/xlink", name |-> <<"href">>]

(***************************************************************************)
(* Claims about the typed ends of DOMNodeRange.                            *)
(***************************************************************************)
\* the positions in the range of its instances of the constructor
InstancesIn(r, ctor) == {k \in 1..Len(AllNodes(r)) : InstanceOf(AllNodes(r)[k], ctor)}

\* C32: firstActiveHTMLElement (firstActiveNodeOfType(HTMLElement)) returns
\* only a node of the range, the first HTMLElement between firstActiveNode
\* and lastActiveNode, and null when the range holds no HTMLElement, even if
\* a sibling outside the range is one.
C32_TypedEndsStayInRange ==
  (BuiltInAndLive /\ queryCalled.name = "firstActiveHTMLElement") =>
    IF InstancesIn(queryRange, "HTMLElement") = {} THEN queryResult.node = NULL
    ELSE queryResult.node =
           AllNodes(queryRange)[CHOOSE k \in InstancesIn(queryRange, "HTMLElement") :
                                  \A j \in InstancesIn(queryRange, "HTMLElement") : k <= j]

(***************************************************************************)
(* Claims about DOMLocationPointer built from props.                       *)
(***************************************************************************)
\* C33: a pointer built from props whose next-sibling anchor is absent or
\* null and whose previous-sibling anchor is a node P inserts after the
\* previous sibling: append(node) makes the node the next sibling of P,
\* whatever P's next sibling was before.
C33_NullNextInsertsAfterPrevious ==
  (/\ ~props.element /\ ~props.isFunction
   /\ props.next \in {UNDEFINED, NULL} /\ props.previous = OuterPrev
   /\ Len(appended) = 1) =>
    /\ pointer.insert = "appendAfterPreviousSibling"
    /\ NextSibling(dom, OuterPrev) = appended[1]

(***************************************************************************)
(* Claims about the table of cancellation handles of a reactive mapping.   *)
(***************************************************************************)
\* what was registered under the handle the table holds for the name is live
HandleLive(b, name) ==
  /\ b.entries[name] \in Streams =>
       \E i \in 1..Len(b.subs) :
         b.subs[i] = [source |-> b.entries[name], name |-> name, scope |-> "handle"]
  /\ (b.entries[name] \in Asyncs /\ b.entries[name] \notin b.resolved) =>
       \E i \in 1..Len(b.pending) :
         b.pending[i] = [async |-> b.entries[name], name |-> name, scope |-> "handle",
                         cancelled |-> FALSE]

C35_BufferedSendsAreFlushed ==
  [][(ws' # ws) => (flushed' = queued)]_vars

\* C36: after every close of a connection a new connection attempt is
\* started in the end, for the second and later disconnects as well as the
\* first.
C36_EveryCloseReconnects ==
  \A s \in 1..(MaxSockets - 1) : (sock[s] = "closed") ~> (created > s)

(***************************************************************************)
(* Claims about ServerBridge.                                              *)
(***************************************************************************)
\* C37: once the abort signal of a request still awaiting its response has
\* fired, the request's callback is never invoked, even if a response for
\* its ref arrives later.
C37_NoCallbackAfterAbort ==
  [][\A ref \in Refs : ref \in aborted => invoked'[ref] = invoked[ref]]_vars

\* C38: for every persistent channel handed to an open callback, aborting
\* the request's signal sends a Cancel message for the channel's ref to the
\* server, whether or not setRouter was called on the channel.
C38_AbortCancelsChannel ==
  \A ref \in Refs :
    (chan[ref] # NoChannel /\ ref \in aborted)
      => \E i \in 1..Len(outbox) : outbox[i] = Cancel(ref)

(***************************************************************************)
(* Claims about the on-demand stylesheet rule set.                         *)
(***************************************************************************)
\* C39: the inserted rule is never removed from a stylesheet while some
\* require on it for that stylesheet is still unreleased, for any
\* interleaving of require calls, release calls and cleanup-timer runs.
C39_RuleStaysWhileRequired ==
  \A i \in 1..Len(requires) :
    ~requires[i].released => rules[requires[i].rule].inserted

(***************************************************************************)
(* Claims about DOMContext.renderEach.                                     *)
(***************************************************************************)
\* C40: renderEach(branches) leaves the rendered branches' nodes in the DOM
\* in the order of the branches (array order, or key order for a record) at
\* the context's insertion location, also when later branches render empty
\* ranges.
C40_RenderEachKeepsBranchOrder ==
  eachCalled => eachDom = RunAt(insertionLocation, AllNodesOf(branches))
====
